---- MODULE Spec2Model ----
(***************************************************************************)
(* A model of wiki-scripts: the interwiki grabber of ws.db.grabbers, the   *)
(* disk-backed caches of ws.cache, the checks of grab.py, the package      *)
(* templates of update-package-templates.py and the URL encoding.          *)
(*                                                                         *)
(*   SpecIw     the interwiki table of the mirror under gen_update         *)
(*   SpecIwInsert  the interwiki table of the mirror under gen_insert      *)
(*   SpecIwSync the wiki's interwiki table changing, each change logged,   *)
(*              and gen_update run from the checkpoint                     *)
(*   Spec       two CacheDb instances of one process, their files, the     *)
(*              wiki, and what can fail                                    *)
(*   SpecUsers  Spec with the AllUsersProps instance alone                 *)
(*   SpecText   Spec with the LatestRevisionsText instance alone, nothing  *)
(*              failing                                                    *)
(*   SpecBoth   Spec with nothing failing                                  *)
(*   SpecCommit the AllUsersProps instance with autocommit on or off       *)
(*   SpecCheck  one check of grab.py on the lists of its dataset           *)
(*   SpecMain   one run of grab.py: the checks it calls, in order          *)
(*   SpecReload a process started on files another process left, the       *)
(*              payload possibly altered in between                        *)
(*   SpecRemoval  SpecBoth with pages deleted and users renamed            *)
(*   SpecRace   the AllUsersProps instance with log events arriving        *)
(*              while update runs                                          *)
(*   SpecTemplate  update_package_template on one template                 *)
(*   SpecPage   update_page on one page                                    *)
(*   SpecEncoding  urlencode and urldecode on one string                   *)
(***************************************************************************)
EXTENDS Integers, Sequences, FiniteSets, TLC

VARIABLES
    \* ---- ws.db.grabbers.interwiki ----
    interwiki,      \* the mirror's interwiki table: a set of rows, iw_prefix unique
    logging,        \* the mirror's logging table, in log order (what db.query lists)
    iwOps,          \* the operations the last gen_update yielded, in order
    iwErr,          \* how the last run ended: "none", "KeyError", "IntegrityError"
    iwRun,          \* the last run: [valid, since]; invalidated when the log grows
    iwBefore,       \* the interwiki table right before the last run
    iwReplay,       \* the last run repeated the run before it (same since, same log)
    iwRuns,         \* number of runs so far
    interwikimap,   \* api.site.interwikimap: the entries of the wiki, in dict order
    \* ---- ws.cache: one process with an AllUsersProps and a LatestRevisionsText ----
    now,            \* the clock datetime.utcnow() reads
    meta,           \* CacheDb.meta, the dict of the class attribute
    data,           \* self.data of each instance: <<>> is None, <<d>> is d
    autocommit,     \* self.autocommit of each instance
    dbfile,         \* the payload file at self.dbpath: <<>> or <<[toks, gz]>>
    metafile,       \* the metadata file at self.metapath: <<>> or <<[ok, m]>>
    calls,          \* the methods the last operation called, in order
    lastOp,         \* the last operation: [op, inst, name]
    lastErr,        \* the exception the last operation raised, or "none"
    attrResult,     \* what the last attribute read returned
    tsAtUpdate,     \* <<meta timestamp>> when the last operation entered update()
    requests,       \* the chunked requests of the last operation: [ids, of]
    tampered,       \* the payload file was changed behind the program's back
    faults,         \* write faults, API faults and tamperings so far
    restarts,       \* restarts of the process so far
    \* ---- the wiki behind the API ----
    wikiUsers,      \* user name -> version of its properties, 0: no such user
    wikiLog,        \* newusers/rights/block log events, oldest first
    wikiRc,         \* recent changes (edits), oldest first
    oldestRc,       \* api.oldest_rc_timestamp
    wikiPages,      \* namespace -> title -> touched, 0: no such page
    wikiOps,        \* number of changes made on the wiki
    \* ---- grab.py: the checks of the mirror against the wiki ----
    chkIn,          \* [dataset, db, api]: the lists db.query and the API returned
    chkOut,         \* <<>> before the check, then <<what the check did>>
    mainArgs,       \* args of grab.py: [sync, parser_cache]
    mainDone,       \* the checks __main__ has called, in order: [check, outcome]
    mainErr,        \* the exception that ended __main__, or "none"
    \* ---- functions of update-package-templates.py and ws.parser_helpers ----
    arg,            \* [fn, ...]: the function called and its arguments
    ret             \* <<>> before the call, then <<what the call returned or raised>>

iwVars == <<interwiki, logging, iwOps, iwErr, iwRun, iwBefore, iwReplay, iwRuns, interwikimap>>

procVars ==
    <<now, meta, data, autocommit, dbfile, metafile, calls, lastOp, lastErr, attrResult,
      tsAtUpdate, requests, tampered, faults, restarts>>

wikiVars == <<wikiUsers, wikiLog, wikiRc, oldestRc, wikiPages, wikiOps>>

cacheVars == <<procVars, wikiVars>>

checkVars == <<chkIn, chkOut, mainArgs, mainDone, mainErr, arg, ret>>

vars == <<iwVars, cacheVars, checkVars>>

(***************************************************************************)
(* Values shared by the model.  A dict key that is missing and an SQL NULL *)
(* are strings, as all parameter values of a log event are.                *)
(***************************************************************************)
Absent == "absent"
Null == "NULL"

\* ------------------------------------------------------------------------
\* ws.db.grabbers.interwiki
\* ------------------------------------------------------------------------
MaxLog == 2         \* log events in the mirror's logging table
MaxRuns == 2        \* runs of gen_update

Prefixes == {"en", "de"}

\* The parameters of a log event: "0" prefix, "1" url, "2" trans, "3" local.
Params(p0, p1, p2, p3) == [p0 |-> p0, p1 |-> p1, p2 |-> p2, p3 |-> p3]

\* The shapes of log events: add/edit with all parameters, with the url only,
\* or with the identity missing; delete with or without identity; an unknown
\* interwiki action; an event of another log type.
IwEvents ==
    {[type |-> "interwiki", action |-> a, params |-> Params(p, "u1", "1", "0")] :
        a \in {"iw_add", "iw_edit"}, p \in Prefixes \cup {Absent}}
    \cup
    {[type |-> "interwiki", action |-> a, params |-> Params(p, "u2", Absent, Absent)] :
        a \in {"iw_add", "iw_edit"}, p \in Prefixes}
    \cup
    {[type |-> "interwiki", action |-> "iw_delete", params |-> Params(p, Absent, Absent, Absent)] :
        p \in Prefixes \cup {Absent}}
    \cup
    {[type |-> "interwiki", action |-> "iw_other", params |-> Params("en", "u1", "1", "0")],
     [type |-> "delete", action |-> "delete", params |-> Params(Absent, Absent, Absent, Absent)]}

\* Mirror states a run can start from.
IwRow(p, url, api, local, trans) ==
    [iw_prefix |-> p, iw_url |-> url, iw_api |-> api, iw_local |-> local, iw_trans |-> trans]

IwTables ==
    { {},
      {IwRow("en", "u0", "a0", "TRUE", "FALSE")},
      {IwRow("en", "u0", "a0", "TRUE", "FALSE"), IwRow("de", "u1", Null, "FALSE", "TRUE")} }

\* int(s) of a decimal parameter, bool(n) as an SQL boolean
ParseInt(s) == IF s = "0" THEN 0 ELSE 1
SqlBool(n) == IF n # 0 THEN "TRUE" ELSE "FALSE"

\* _transform_logevent_params: the dict holds only the keys the event carries.
TransformLogeventParams(params) ==
    [iw_prefix |-> params.p0,
     iw_url    |-> params.p1,
     iw_trans  |-> IF params.p2 = Absent THEN Absent ELSE SqlBool(ParseInt(params.p2)),
     iw_local  |-> IF params.p3 = Absent THEN Absent ELSE SqlBool(ParseInt(params.p3)),
     iw_api    |-> Absent]

\* The row an INSERT proposes: a column the entry does not bind is NULL.
Col(v) == IF v = Absent THEN Null ELSE v

Excluded(e) ==
    IwRow(e.iw_prefix, Col(e.iw_url), Col(e.iw_api), Col(e.iw_local), Col(e.iw_trans))

\* A slip in set_: iw_url taken from the existing row's iw_api column.
OnConflictSetFromRow(old, ex) ==
    [old EXCEPT !.iw_url = old.iw_api, !.iw_api = ex.iw_api,
                !.iw_local = ex.iw_local, !.iw_trans = ex.iw_trans]

\* ON CONFLICT (iw_prefix) DO UPDATE SET ... = excluded....
OnConflictSet(old, ex) ==
    [old EXCEPT !.iw_url = ex.iw_url, !.iw_api = ex.iw_api,
                !.iw_local = ex.iw_local, !.iw_trans = ex.iw_trans]

\* sql["insert", "interwiki"] executed with entry e; iw_prefix is the key of
\* the table, an entry without it is rejected.
SqlInsertOk(e) == e.iw_prefix # Absent

SqlInsert(table, e) ==
    LET ex == Excluded(e)
        hit == {r \in table : r.iw_prefix = ex.iw_prefix}
    IN  IF hit = {} THEN table \cup {ex}
        ELSE (table \ hit) \cup {OnConflictSet(r, ex) : r \in hit}

\* sql["delete", "interwiki"] executed with b_iw_prefix
SqlDelete(table, prefix) == {r \in table : r.iw_prefix # prefix}

\* gen_update: the operations yielded for log[i..], and whether the generator
\* raised (KeyError on db_entry["iw_prefix"]) instead of ending.
RECURSIVE GenUpdateFrom(_, _, _)
GenUpdateFrom(log, i, since) ==
    IF i > Len(log) THEN [ops |-> <<>>, err |-> "none"]
    ELSE
        LET le == log[i]
            db_entry == TransformLogeventParams(le.params)
            rest == GenUpdateFrom(log, i + 1, since)
        IN  IF le.timestamp < since \/ le.type # "interwiki" THEN rest
            ELSE IF le.action \in {"iw_add", "iw_edit"}
                 THEN [rest EXCEPT !.ops = <<[kind |-> "insert", entry |-> db_entry]>> \o @]
            ELSE IF le.action = "iw_delete"
                 THEN IF db_entry.iw_prefix = Absent
                      THEN [ops |-> <<>>, err |-> "KeyError"]
                      ELSE [rest EXCEPT !.ops =
                                <<[kind |-> "delete", entry |-> [b_iw_prefix |-> db_entry.iw_prefix]]>> \o @]
            ELSE rest

GenUpdate(log, since) == GenUpdateFrom(log, 1, since)

\* The operations are executed as they are yielded; a rejected statement ends
\* the run and the generator is not resumed.
RECURSIVE Execute(_, _, _, _)
Execute(ops, i, table, genErr) ==
    IF i > Len(ops) THEN [table |-> table, err |-> genErr]
    ELSE IF ops[i].kind = "insert"
         THEN IF SqlInsertOk(ops[i].entry)
              THEN Execute(ops, i + 1, SqlInsert(table, ops[i].entry), genErr)
              ELSE [table |-> table, err |-> "IntegrityError"]
         ELSE Execute(ops, i + 1, SqlDelete(table, ops[i].entry.b_iw_prefix), genErr)

\* An interwiki change is logged on the wiki and mirrored into the logging table;
\* log timestamps grow with the log.
LogEvent(e) ==
    /\ Len(logging) < MaxLog
    /\ logging' = Append(logging,
            [type |-> e.type, action |-> e.action, params |-> e.params,
             timestamp |-> Len(logging) + 1])
    /\ iwRun' = [iwRun EXCEPT !.valid = FALSE]
    /\ iwReplay' = FALSE
    /\ UNCHANGED <<interwiki, iwOps, iwErr, iwBefore, iwRuns, interwikimap>>

\* for stmt, entry in gen_update(since): execute(stmt, entry)
RunGenUpdate(since) ==
    /\ iwRuns < MaxRuns
    /\ LET gen == GenUpdate(logging, since)
           res == Execute(gen.ops, 1, interwiki, gen.err)
       IN  /\ interwiki' = res.table
           /\ iwOps' = gen.ops
           /\ iwErr' = res.err
    /\ iwRun' = [valid |-> TRUE, since |-> since]
    /\ iwReplay' = (iwRun.valid /\ iwRun.since = since)
    /\ iwBefore' = interwiki
    /\ iwRuns' = iwRuns + 1
    /\ UNCHANGED <<logging, interwikimap>>

\* An entry of the interwikimap: prefix and url, api if the wiki has one, the
\* flags local and trans present or not.
SiteEntry(p, url, api, local, trans) ==
    [prefix |-> p, url |-> url, api |-> api, local |-> local, trans |-> trans]

SiteEntries(p) ==
    {SiteEntry(p, url, api, local, trans) :
        url \in {"u0", "u1"}, api \in {Absent, "a0"}, local \in BOOLEAN, trans \in BOOLEAN}

\* The interwikimaps a wiki can have: a dict keyed by prefix.
IwMaps ==
    {<<>>}
    \cup {<<e>> : e \in SiteEntries("en") \cup SiteEntries("de")}
    \cup {<<e, f>> : e \in SiteEntries("en"), f \in SiteEntries("de")}
    \cup {<<f, e>> : e \in SiteEntries("en"), f \in SiteEntries("de")}

\* iw.get("api"): None when the entry has no api
DictGet(v) == IF v = Absent THEN Null ELSE v

\* "local" in iw, "trans" in iw
PyBool(b) == IF b THEN "TRUE" ELSE "FALSE"

\* the db_entry of gen_insert
InsertEntry(iw) ==
    [iw_prefix |-> iw.prefix,
     iw_url    |-> iw.url,
     iw_api    |-> DictGet(iw.api),
     iw_local  |-> PyBool(iw.local),
     iw_trans  |-> PyBool(iw.trans)]

RECURSIVE GenInsertFrom(_, _)
GenInsertFrom(map, i) ==
    IF i > Len(map) THEN <<>>
    ELSE <<[kind |-> "insert", entry |-> InsertEntry(map[i])]>> \o GenInsertFrom(map, i + 1)

\* A slip: the loop left after the first entry.
GenInsertFirst(map) == IF Len(map) = 0 THEN <<>> ELSE <<GenInsertFrom(map, 1)[1]>>

\* gen_insert: one upsert for each of interwikimap.values()
GenInsert(map) == GenInsertFrom(map, 1)

\* for stmt, entry in gen_insert(): execute(stmt, entry)
RunGenInsert ==
    /\ iwRuns < MaxRuns
    /\ LET ops == GenInsert(interwikimap)
           res == Execute(ops, 1, interwiki, "none")
       IN  /\ interwiki' = res.table
           /\ iwOps' = ops
           /\ iwErr' = res.err
    /\ iwRun' = [valid |-> FALSE, since |-> 0]
    /\ iwReplay' = FALSE
    /\ iwBefore' = interwiki
    /\ iwRuns' = iwRuns + 1
    /\ UNCHANGED <<logging, interwikimap>>

\* ------------------------------------------------------------------------
\* ws.cache
\* ------------------------------------------------------------------------
MaxTime == 4        \* the clock stops here
NumNames == 1       \* user names 1..NumNames, ordered as the names are
MaxVer == 2         \* versions of a user's properties
NumTitles == 1      \* page titles 1..NumTitles, ordered as the titles are
MaxEvents == 1      \* events around the program: changes made on the wiki, failed
                    \* writes, failed API queries, tamperings, restarts
DayLen == 2         \* clock ticks per day
ActiveDays == 1     \* the active_days an AllUsersProps is constructed with
HashMod == 11       \* range of the checksum

Users == "AllUsersProps"
Text == "LatestRevisionsText"
Insts == {Users, Text}

Names == 1..NumNames
Titles == 1..NumTitles
Namespaces == {0, 1}

\* None and Some(v)
None == <<>>
Some(v) == <<v>>
Get(o) == o[1]

\* A key of a dict or an argument of an accessor: a str, an int, or no key.
StrKey(n) == [kind |-> "str", v |-> n]
IntKey(n) == [kind |-> "int", v |-> n]
NoKey == [kind |-> "none", v |-> 0]
DictKeys == {StrKey(n) : n \in Namespaces} \cup {IntKey(n) : n \in Namespaces}

\* str(ns) if ns is not None else "0"
Str(key) == IF key.kind = "none" THEN StrKey(0) ELSE StrKey(key.v)

\* A tempting slip: the namespace used as the key as it came.
NsKeyRaw(key) == IF key.kind = "none" THEN StrKey(0) ELSE key

\* ns = str(ns) if ns is not None else "0"
NsKey(key) == Str(key)

\* The empty dict of LatestRevisionsText and its entries.
EmptyDict == [k \in DictKeys |-> None]

\* ---- JSON -------------------------------------------------------------
\* The payload is a sequence of tokens.  A user is written as
\*   rec, name, props, recenteditcount-or-null
\* and the dict of LatestRevisionsText as, per key,
\*   key, then per page: rec, title, pageid, touched (an encoded datetime).
Tok(t, v) == [t |-> t, v |-> v]

\* DatetimeEncoder / datetime_parser
EncodeDatetime(d) == Tok("dt", d)
DecodeDatetime(tok) == tok.v

UserToks(u) ==
    <<Tok("rec", 0), Tok("int", u.name), Tok("int", u.ver),
      IF u.recenteditcount = None THEN Tok("null", 0) ELSE Tok("int", Get(u.recenteditcount))>>

PageToks(p) ==
    <<Tok("rec", 0), Tok("int", p.title), Tok("int", p.pageid), EncodeDatetime(p.touched)>>

RECURSIVE UserListToks(_, _)
UserListToks(list, i) ==
    IF i > Len(list) THEN <<>> ELSE UserToks(list[i]) \o UserListToks(list, i + 1)

RECURSIVE PageListToks(_, _)
PageListToks(list, i) ==
    IF i > Len(list) THEN <<>> ELSE PageToks(list[i]) \o PageListToks(list, i + 1)

\* the keys of a dict in the order they are written: json.dumps writes every
\* key as a string
KeyOrder == <<StrKey(0), IntKey(0), StrKey(1), IntKey(1)>>

RECURSIVE DictToks(_, _)
DictToks(d, i) ==
    IF i > Len(KeyOrder) THEN <<>>
    ELSE (IF d[KeyOrder[i]] = None THEN <<>>
          ELSE <<Tok("key", KeyOrder[i].v)>> \o PageListToks(Get(d[KeyOrder[i]]), 1))
         \o DictToks(d, i + 1)

\* json.dumps(self.data, cls=DatetimeEncoder)
JsonDumps(inst, d) ==
    IF inst = Users THEN UserListToks(d, 1) ELSE DictToks(d, 1)

\* json.loads of a list of users
RECURSIVE ParseUsers(_, _)
ParseUsers(toks, i) ==
    IF i > Len(toks) THEN [ok |-> TRUE, val |-> <<>>]
    ELSE IF /\ i + 3 <= Len(toks)
            /\ toks[i].t = "rec"
            /\ toks[i + 1].t = "int"
            /\ toks[i + 2].t = "int"
            /\ toks[i + 3].t \in {"int", "null"}
         THEN LET rest == ParseUsers(toks, i + 4)
                  u == [name |-> toks[i + 1].v, ver |-> toks[i + 2].v,
                        recenteditcount |->
                            IF toks[i + 3].t = "null" THEN None ELSE Some(toks[i + 3].v)]
              IN  [rest EXCEPT !.val = <<u>> \o @]
         ELSE [ok |-> FALSE, val |-> <<>>]

\* json.loads of a dict of page lists: d is the dict read so far, cur the key
\* whose list is being read
RECURSIVE ParseDict(_, _, _, _)
ParseDict(toks, i, d, cur) ==
    IF i > Len(toks) THEN [ok |-> TRUE, val |-> d]
    ELSE IF toks[i].t = "key" /\ toks[i].v \in Namespaces
         THEN ParseDict(toks, i + 1, [d EXCEPT ![StrKey(toks[i].v)] = Some(<<>>)],
                        Some(StrKey(toks[i].v)))
    ELSE IF /\ cur # None
            /\ i + 3 <= Len(toks)
            /\ toks[i].t = "rec"
            /\ toks[i + 1].t = "int"
            /\ toks[i + 2].t = "int"
            /\ toks[i + 3].t = "dt"
         THEN LET p == [title |-> toks[i + 1].v, pageid |-> toks[i + 2].v,
                        touched |-> DecodeDatetime(toks[i + 3])]
              IN  ParseDict(toks, i + 4,
                            [d EXCEPT ![Get(cur)] = Some(Append(Get(@), p))], cur)
         ELSE [ok |-> FALSE, val |-> d]

\* json.loads(s, object_hook=datetime_parser)
JsonLoads(inst, toks) ==
    IF inst = Users THEN ParseUsers(toks, 1) ELSE ParseDict(toks, 1, EmptyDict, None)

\* ---- checksum ---------------------------------------------------------
TokCode(tok) ==
    tok.v * 5 + (CASE tok.t = "rec" -> 0 [] tok.t = "int" -> 1 [] tok.t = "null" -> 2
                   [] tok.t = "dt" -> 3 [] tok.t = "key" -> 4 [] OTHER -> 7)

\* md5sum(bytes_)
RECURSIVE Md5sum(_)
Md5sum(s) ==
    IF s = <<>> THEN 1
    ELSE (Md5sum(SubSeq(s, 1, Len(s) - 1)) * 3 + TokCode(s[Len(s)]) + 1) % HashMod

\* ---- timestamps -------------------------------------------------------
\* strftime(ts_format): "%Y-%m-%dT%H:%M:%S.%f", the day and the time of day
Strftime(ts) == [day |-> ts \div DayLen, time |-> ts % DayLen]

\* strptime(s, ts_format)
Strptime(s) == s.day * DayLen + s.time

\* strftime("%Y-%m-%d")
DateStr(ts) == ts \div DayLen

\* ---- meta -------------------------------------------------------------
\* A dict with the keys the program sets; a key not set is None.
EmptyMeta ==
    [md5 |-> None, timestamp |-> None, firstdate |-> None, lastdate |-> None,
     activeuserscount |-> None]

\* m = self.meta.copy(); m["timestamp"] = m["timestamp"].strftime(ts_format)
MetaToJson(m) ==
    [m EXCEPT !.timestamp = IF @ = None THEN None ELSE Some(Strftime(Get(@)))]

\* self.meta of an instance: no instance binds a dict of its own, so every
\* instance reads and writes the one dict of the class attribute
SelfMeta(S, inst) == S.meta

\* ---- the state a method runs on ---------------------------------------
\* meta, data, the files and the clock, the calls made so far, the exception
\* raised (after which nothing more is executed), and the checkpoint that
\* update() found when it was entered.
Proc ==
    [meta |-> meta, data |-> data, db |-> dbfile, mf |-> metafile, now |-> now,
     calls |-> <<>>, err |-> "none", tsAtUpdate |-> None, requests |-> <<>>,
     lag |-> 0, during |-> None]

\* The queries of an update take time: the clock moves on by S.lag between
\* the log query and the moment the checkpoint is stored, and during keeps the
\* time of the queries.
Elapsed(S) ==
    IF S.lag = 0 THEN S ELSE [S EXCEPT !.during = Some(S.now), !.now = @ + S.lag]

Called(S, name) == [S EXCEPT !.calls = Append(@, name)]
Raise(S, e) == [S EXCEPT !.err = e]
Failed(S) == S.err # "none"

\* _update_timestamp
UpdateTimestamp(S) == [S EXCEPT !.meta.timestamp = Some(S.now)]

\* ---- sorted lists (utils.bisect_find, utils.bisect_insert_or_replace) ---
HasUser(list, name) == \E j \in 1..Len(list) : list[j].name = name
HasTitle(list, title) == \E j \in 1..Len(list) : list[j].title = title

InsertAt(list, n, elem) == SubSeq(list, 1, n) \o <<elem>> \o SubSeq(list, n + 1, Len(list))

InsertOrReplaceUser(list, elem) ==
    IF HasUser(list, elem.name)
    THEN [j \in 1..Len(list) |-> IF list[j].name = elem.name THEN elem ELSE list[j]]
    ELSE InsertAt(list, Cardinality({j \in 1..Len(list) : list[j].name < elem.name}), elem)

InsertOrReplacePage(list, elem) ==
    IF HasTitle(list, elem.title)
    THEN [j \in 1..Len(list) |-> IF list[j].title = elem.title THEN elem ELSE list[j]]
    ELSE InsertAt(list, Cardinality({j \in 1..Len(list) : list[j].title < elem.title}), elem)

\* ---- dump -------------------------------------------------------------
\* What can go wrong once dump() writes: db.write fails (the payload file is
\* already truncated), open(metapath) fails, meta.write fails (the metadata
\* file is already truncated).
DumpFaults == {"none", "payload", "meta_open", "meta_write"}

TruncatedPayload == [toks |-> <<>>, gz |-> FALSE]
TruncatedMeta == [ok |-> FALSE, m |-> EmptyMeta]

\* self.meta["md5"] = md5sum(s)
DumpMd5(s) == Md5sum(s)

Dump(S0, inst, fault) ==
    LET s == JsonDumps(inst, Get(S0.data[inst]))
        S == [Called(S0, "dump") EXCEPT !.meta.md5 = Some(DumpMd5(s))]
        m == MetaToJson(SelfMeta(S, inst))
        written == Some([toks |-> s, gz |-> TRUE])
    IN  CASE fault = "none" ->
                [S EXCEPT !.db[inst] = written, !.mf[inst] = Some([ok |-> TRUE, m |-> m])]
          [] fault = "payload" ->
                Raise([S EXCEPT !.db[inst] = Some(TruncatedPayload)], "OSError")
          [] fault = "meta_open" ->
                Raise([S EXCEPT !.db[inst] = written], "OSError")
          [] fault = "meta_write" ->
                Raise([S EXCEPT !.db[inst] = written, !.mf[inst] = Some(TruncatedMeta)],
                      "OSError")

\* A slip: the dump made whatever autocommit says.
AutocommitAlways(S, inst, df) == Dump(S, inst, df)

\* if self.autocommit is True: self.dump()
Autocommit(S, inst, df) == IF autocommit[inst] THEN Dump(S, inst, df) ELSE S

\* ---- the wiki, as the API lists it ------------------------------------
\* The API query that fails: the first query of init ("init"), the first query
\* of update ("update"), list=recentchanges ("active"), the query that fetches
\* what changed ("fetch").
RemoteFaults == {"none", "init", "update", "active", "fetch"}

\* the properties of a user and the touched of a page; 0: the wiki has none
UserVer(name) == IF name \in Names THEN wikiUsers[name] ELSE 0
PageTouched(n, title) == IF title \in Titles THEN wikiPages[n][title] ELSE 0

\* list=allusers, sorted by user name
RECURSIVE AllUsersFrom(_)
AllUsersFrom(n) ==
    IF n > NumNames THEN <<>>
    ELSE (IF wikiUsers[n] = 0 THEN <<>>
          ELSE <<[name |-> n, ver |-> wikiUsers[n], recenteditcount |-> None]>>)
         \o AllUsersFrom(n + 1)

\* list=logevents of one letype, ledir=newer, lestart: the target user names
RECURSIVE LogUsers(_, _, _)
LogUsers(letype, lestart, i) ==
    IF i > Len(wikiLog) THEN <<>>
    ELSE (IF wikiLog[i].letype = letype /\ (lestart = None \/ wikiLog[i].ts >= Get(lestart))
          THEN <<wikiLog[i].user>> ELSE <<>>)
         \o LogUsers(letype, lestart, i + 1)

\* _find_changed_users
FindChangedUsers(S) ==
    LET lestart == SelfMeta(S, Users).timestamp
    IN  LogUsers("newusers", lestart, 1) \o LogUsers("rights", lestart, 1)
        \o LogUsers("block", lestart, 1)

\* round_to_midnight of the constructor
RoundToMidnight == FALSE

\* list=recentchanges from rcstart back to rcend: newest first
RECURSIVE RcBetween(_, _, _)
RcBetween(first, last, i) ==
    IF i < 1 THEN <<>>
    ELSE (IF wikiRc[i].ts >= first /\ wikiRc[i].ts <= last THEN <<wikiRc[i].user>> ELSE <<>>)
         \o RcBetween(first, last, i - 1)

Count(seq, x) == Cardinality({j \in 1..Len(seq) : seq[j] = x})

\* the keys of rcusers in insertion order
RECURSIVE FirstOccurrences(_, _)
FirstOccurrences(seq, i) ==
    IF i > Len(seq) THEN <<>>
    ELSE (IF \E j \in 1..(i - 1) : seq[j] = seq[i] THEN <<>> ELSE <<seq[i]>>)
         \o FirstOccurrences(seq, i + 1)

\* _find_active_users: raises ShortRecentChangesError (short), else sets the
\* counters of meta and returns rcusers
FindActiveUsers(S) ==
    LET today == IF RoundToMidnight THEN (S.now \div DayLen) * DayLen ELSE S.now
        firstday == today - ActiveDays * DayLen
        rc == RcBetween(firstday, today, Len(wikiRc))
        rcusers == [n \in Names |-> Count(rc, n)]
        order == FirstOccurrences(rc, 1)
    IN  IF oldestRc > firstday
        THEN [short |-> TRUE, S |-> S, rcusers |-> rcusers, order |-> order]
        ELSE [short |-> FALSE,
              S |-> [S EXCEPT !.meta.firstdate = Some(DateStr(firstday)),
                              !.meta.lastdate = Some(DateStr(today)),
                              !.meta.activeuserscount = Some(Len(order))],
              rcusers |-> rcusers, order |-> order]

\* _update_recent_edit_counts
UpdateRecentEditCounts(list, rcusers) ==
    [j \in 1..Len(list) |-> [list[j] EXCEPT !.recenteditcount =
                            Some(IF list[j].name \in Names THEN rcusers[list[j].name] ELSE 0)]]

\* api.max_ids_per_query
MaxIds == 1

\* utils.list_chunks(list, n): the slices of n items of the list, in order,
\* the last one with what is left
RECURSIVE ListChunks(_, _)
ListChunks(list, n) ==
    IF list = <<>> THEN <<>>
    ELSE LET k == IF Len(list) < n THEN Len(list) ELSE n
         IN  <<SubSeq(list, 1, k)>> \o ListChunks(SubSeq(list, k + 1, Len(list)), n)

\* One request of the loop over the chunks: the ids it carries, and the list
\* the chunks are taken of.
Requested(S, snippet, list) == [S EXCEPT !.requests = Append(@, [ids |-> snippet, of |-> list])]

\* A slip: the whole list goes into one request.
RequestedUnchunked(S, chunks, list, i) == Requested(S, list, list)

RECURSIVE RequestedAll(_, _, _, _)
RequestedAll(S, chunks, list, i) ==
    IF i > Len(chunks) THEN S
    ELSE RequestedAll(Requested(S, chunks[i], list), chunks, list, i + 1)

\* list=users for the names of users: invalid and missing users are skipped
RECURSIVE FetchUsers(_, _, _)
FetchUsers(list, users, i) ==
    IF i > Len(users) THEN list
    ELSE IF UserVer(users[i]) = 0 THEN FetchUsers(list, users, i + 1)
    ELSE FetchUsers(
            InsertOrReplaceUser(list,
                [name |-> users[i], ver |-> UserVer(users[i]), recenteditcount |-> None]),
            users, i + 1)

\* A slip: the users fetched replace the list.
FetchUsersFresh(list, chunks, i) ==
    IF chunks = <<>> THEN list ELSE FetchUsers(<<>>, chunks[1], 1)

\* for snippet in utils.list_chunks(users, self.api.max_ids_per_query): the
\* users of each snippet are fetched, one snippet after the other
RECURSIVE FetchUsersChunked(_, _, _)
FetchUsersChunked(list, chunks, i) ==
    IF i > Len(chunks) THEN list
    ELSE FetchUsersChunked(FetchUsers(list, chunks[i], 1), chunks, i + 1)

\* ---- AllUsersProps ----------------------------------------------------
\* A slip: init lets ShortRecentChangesError through.
ExceptShortRaises(S) == Raise(S, "ShortRecentChangesError")

\* except ShortRecentChangesError: pass
ExceptShort(S) == S

\* Every init and update queries the API, which takes time.
UsersInit(S0, rf, df) ==
    LET S == [Called(S0, "init") EXCEPT !.now = @ + 1]
    IN  IF rf = "init" THEN Raise(S, "APIError")
        ELSE LET S1 == [S EXCEPT !.data[Users] = Some(AllUsersFrom(1))]
                 act == FindActiveUsers(S1)
                 S2 == IF act.short THEN ExceptShort(S1)
                       ELSE [act.S EXCEPT !.data[Users] =
                                Some(UpdateRecentEditCounts(Get(@), act.rcusers))]
                 S3 == UpdateTimestamp(S2)
             IN  IF rf = "active" THEN Raise(S1, "APIError")
                 ELSE IF Failed(S2) THEN S2
                 ELSE Autocommit(S3, Users, df)

\* A slip: the checkpoint moved before the changed users are fetched.
UsersUpdateStampFirst(S0, rf, df) ==
    LET S == [Called(S0, "update") EXCEPT !.now = @ + 1,
                                          !.tsAtUpdate = Some(SelfMeta(S0, Users).timestamp)]
    IN  IF rf = "update" THEN Raise(S, "APIError")
        ELSE LET changed == FindChangedUsers(S)
                 act == FindActiveUsers(S)
                 users == changed \o act.order
             IN  IF rf = "active" THEN Raise(S, "APIError")
                 ELSE IF act.short THEN UsersInit(S, rf, df)
                 ELSE IF Len(users) = 0 THEN act.S
                 ELSE IF rf = "fetch" THEN Raise(UpdateTimestamp(act.S), "APIError")
                 ELSE LET chunks == ListChunks(users, MaxIds)
                          fetched == FetchUsersChunked(Get(act.S.data[Users]), chunks, 1)
                          S1 == RequestedAll(act.S, chunks, users, 1)
                          S2 == [S1 EXCEPT !.data[Users] =
                                    Some(UpdateRecentEditCounts(fetched, act.rcusers))]
                          S3 == UpdateTimestamp(S2)
                      IN  Autocommit(S3, Users, df)

UsersUpdate(S0, rf, df) ==
    LET S == [Called(S0, "update") EXCEPT !.now = @ + 1,
                                          !.tsAtUpdate = Some(SelfMeta(S0, Users).timestamp)]
    IN  IF rf = "update" THEN Raise(S, "APIError")
        ELSE LET changed == FindChangedUsers(S)
                 act == FindActiveUsers(S)
                 users == changed \o act.order
             IN  IF rf = "active" THEN Raise(S, "APIError")
                 ELSE IF act.short THEN UsersInit(S, rf, df)
                 ELSE IF Len(users) = 0 THEN act.S
                 ELSE IF rf = "fetch" THEN Raise(act.S, "APIError")
                 ELSE LET chunks == ListChunks(users, MaxIds)
                          fetched == FetchUsersChunked(Get(act.S.data[Users]), chunks, 1)
                          S1 == RequestedAll(act.S, chunks, users, 1)
                          S2 == [S1 EXCEPT !.data[Users] =
                                    Some(UpdateRecentEditCounts(fetched, act.rcusers))]
                          S3 == UpdateTimestamp(Elapsed(S2))
                      IN  Autocommit(S3, Users, df)

\* ---- LatestRevisionsText ----------------------------------------------
\* generator=allpages of a namespace, by title
RECURSIVE AllPagesFrom(_, _)
AllPagesFrom(n, title) ==
    IF title > NumTitles THEN <<>>
    ELSE (IF wikiPages[n][title] = 0 THEN <<>>
          ELSE <<[title |-> title, pageid |-> title, touched |-> wikiPages[n][title]]>>)
         \o AllPagesFrom(n, title + 1)

\* A key a partial record does not have.
NoField == 0 - 1

\* dmerge(source, destination): every field source has is set in destination,
\* the fields source lacks stay as they are
Dmerge(source, destination) ==
    [f \in DOMAIN destination |->
        IF source[f] # NoField THEN source[f] ELSE destination[f]]

\* the loop of init over the generator
RECURSIVE InitPages(_, _, _)
InitPages(list, pages, i) ==
    IF i > Len(pages) THEN list
    ELSE IF HasTitle(list, pages[i].title)
         THEN InitPages([j \in 1..Len(list) |->
                            IF list[j].title = pages[i].title THEN Dmerge(pages[i], list[j])
                            ELSE list[j]], pages, i + 1)
         ELSE InitPages(InsertOrReplacePage(list, pages[i]), pages, i + 1)

TextInit(S0, key, rf, df) ==
    LET ns == NsKey(key)
        S == [Called(S0, "init") EXCEPT !.now = @ + 1]
        d0 == IF S.data[Text] = None THEN EmptyDict ELSE Get(S.data[Text])
        S1 == [S EXCEPT !.data[Text] = Some([d0 EXCEPT ![ns] = Some(<<>>)])]
    IN  IF rf = "init" THEN Raise(S1, "APIError")
        ELSE LET pages == InitPages(<<>>, AllPagesFrom(ns.v, 1), 1)
                 S2 == [S1 EXCEPT !.data[Text] = Some([Get(@) EXCEPT ![ns] = Some(pages)])]
                 S3 == UpdateTimestamp(S2)
             IN  Autocommit(S3, Text, df)

\* A slip: only the pages that are not cached yet are fetched.
GetForUpdateNewOnly(list, pages, i) ==
    LET new == {j \in 1..Len(pages) : ~HasTitle(list, pages[j].title)}
    IN  IF new = {} THEN <<>> ELSE <<pages[CHOOSE j \in new : TRUE].pageid>>

\* _get_for_update: the pageids of the pages listed that are not cached or
\* were touched after the cached copy
RECURSIVE GetForUpdate(_, _, _)
GetForUpdate(list, pages, i) ==
    IF i > Len(pages) THEN <<>>
    ELSE (IF \E j \in 1..Len(list) :
                list[j].title = pages[i].title /\ ~(pages[i].touched > list[j].touched)
          THEN <<>> ELSE <<pages[i].pageid>>)
         \o GetForUpdate(list, pages, i + 1)

\* action=query with pageids: the pages fetched replace or join the cached ones
RECURSIVE FetchPages(_, _, _, _)
FetchPages(list, n, pageids, i) ==
    IF i > Len(pageids) THEN list
    ELSE IF PageTouched(n, pageids[i]) = 0 THEN FetchPages(list, n, pageids, i + 1)
    ELSE FetchPages(
            InsertOrReplacePage(list,
                [title |-> pageids[i], pageid |-> pageids[i],
                 touched |-> PageTouched(n, pageids[i])]),
            n, pageids, i + 1)

\* for snippet in utils.list_chunks(for_update, self.api.max_ids_per_query)
RECURSIVE FetchPagesChunked(_, _, _, _)
FetchPagesChunked(list, n, chunks, i) ==
    IF i > Len(chunks) THEN list
    ELSE FetchPagesChunked(FetchPages(list, n, chunks[i], 1), n, chunks, i + 1)

TextUpdate(S0, key, rf, df) ==
    LET ns == NsKey(key)
        S == [Called(S0, "update") EXCEPT
                    !.tsAtUpdate = Some(SelfMeta(S0, Text).timestamp)]
    IN  IF Get(S.data[Text])[ns] = None THEN TextInit(S, key, rf, df)
        ELSE LET Sq == [S EXCEPT !.now = @ + 1]
                 list == Get(Get(Sq.data[Text])[ns])
                 for_update == GetForUpdate(list, AllPagesFrom(ns.v, 1), 1)
             IN  IF rf = "update" THEN Raise(Sq, "APIError")
                 ELSE IF Len(for_update) = 0 THEN Sq
                 ELSE IF rf = "fetch" THEN Raise(Sq, "APIError")
                 ELSE LET chunks == ListChunks(for_update, MaxIds)
                          pages == FetchPagesChunked(list, ns.v, chunks, 1)
                          S1 == RequestedAll(Sq, chunks, for_update, 1)
                          S2 == [S1 EXCEPT !.data[Text] =
                                    Some([Get(@) EXCEPT ![ns] = Some(pages)])]
                          S3 == UpdateTimestamp(S2)
                      IN  Autocommit(S3, Text, df)

\* ---- CacheDb ----------------------------------------------------------
Init_(S, inst, key, rf, df) ==
    IF inst = Users THEN UsersInit(S, rf, df) ELSE TextInit(S, key, rf, df)

Update_(S, inst, key, rf, df) ==
    IF inst = Users THEN UsersUpdate(S, rf, df) ELSE TextUpdate(S, key, rf, df)

\* self.meta.update(json.loads(meta.read())) and the parse of the timestamp
LoadMeta(S, inst) ==
    LET f == Get(S.mf[inst])
        j == f.m
        old == SelfMeta(S, inst)
        m == [md5 |-> IF j.md5 = None THEN old.md5 ELSE j.md5,
              timestamp |-> old.timestamp,
              firstdate |-> IF j.firstdate = None THEN old.firstdate ELSE j.firstdate,
              lastdate |-> IF j.lastdate = None THEN old.lastdate ELSE j.lastdate,
              activeuserscount |->
                  IF j.activeuserscount = None THEN old.activeuserscount
                  ELSE j.activeuserscount]
    IN  IF ~f.ok THEN Raise(S, "ValueError")
        ELSE IF j.timestamp # None
             THEN [S EXCEPT !.meta = [m EXCEPT !.timestamp = Some(Strptime(Get(j.timestamp)))]]
        ELSE IF old.timestamp # None
             THEN Raise([S EXCEPT !.meta = m], "TypeError")
        ELSE [S EXCEPT !.meta = m]

\* A slip: the recomputed checksum recorded before it is compared.
Md5DiffersAfterStore(md5_new, m) == Some(md5_new) # Some(md5_new)

\* if md5_new != self.md5
Md5Differs(md5_new, m) == Some(md5_new) # m.md5

\* the comparison of load(), made once the metadata file is read
CheckMd5(S, inst, md5_new) ==
    IF Md5Differs(md5_new, SelfMeta(S, inst)) THEN Raise(S, "CacheDbError")
    ELSE Called(S, "compare")

Load(S0, inst, key, rf, df) ==
    LET S == Called(S0, "load")
    IN  IF S.db[inst] = None THEN Init_(S, inst, key, rf, df)
        ELSE LET f == Get(S.db[inst])
                 md5_new == Md5sum(f.toks)
                 S1 == IF S.mf[inst] # None
                       THEN LET Sm == LoadMeta(S, inst)
                            IN  IF Failed(Sm) THEN Sm ELSE CheckMd5(Sm, inst, md5_new)
                       ELSE [S EXCEPT !.meta.md5 = Some(md5_new)]
                 parsed == JsonLoads(inst, f.toks)
             IN  IF ~f.gz THEN Raise(S, "GzipError")
                 ELSE IF Failed(S1) THEN S1
                 ELSE IF ~parsed.ok THEN Raise(S1, "ValueError")
                 ELSE [Called(S1, "deserialize") EXCEPT !.data[inst] = Some(parsed.val)]

\* A slip: a cache whose checksum differs is initialized anew.
LoadAndUpdateReinit(S, inst, key, rf, df) ==
    LET S1 == IF S.data[inst] = None THEN Load(S, inst, key, rf, df) ELSE S
        S2 == IF S1.err = "CacheDbError"
              THEN Init_([S1 EXCEPT !.err = "none"], inst, key, rf, df) ELSE S1
    IN  IF Failed(S2) THEN S2 ELSE Update_(S2, inst, key, rf, df)

\* A slip: load() called on every access.
LoadAndUpdateAlways(S, inst, key, rf, df) ==
    LET S1 == Load(S, inst, key, rf, df)
    IN  IF Failed(S1) THEN S1 ELSE Update_(S1, inst, key, rf, df)

\* A slip: an update that failed on the API is tried once more.
LoadAndUpdateRetry(S, inst, key, rf, df) ==
    LET S1 == IF S.data[inst] = None THEN Load(S, inst, key, rf, df) ELSE S
        S2 == Update_(S1, inst, key, rf, df)
    IN  IF Failed(S1) THEN S1
        ELSE IF S2.err = "APIError" THEN Update_([S2 EXCEPT !.err = "none"], inst, key, rf, df)
        ELSE S2

\* _load_and_update
LoadAndUpdate(S, inst, key, rf, df) ==
    LET S1 == IF S.data[inst] = None THEN Load(S, inst, key, rf, df) ELSE S
    IN  IF Failed(S1) THEN S1 ELSE Update_(S1, inst, key, rf, df)

\* self.data.__getitem__(key), __contains__(item), __iter__(), __reversed__()
ReadData(S, inst, acc, key) ==
    IF acc = "getitem" /\ Get(S.data[inst])[key] = None
    THEN Raise(Called(S, "read"), "KeyError")
    ELSE Called(S, "read")

\* __getitem__, __contains__, __iter__, __reversed__
Accessor(S, inst, acc, key, rf, df) ==
    LET S1 == LoadAndUpdate(S, inst, key, rf, df)
    IN  IF Failed(S1) THEN S1 ELSE ReadData(S1, inst, acc, key)

\* A slip: the metadata read through the accessor path.
GetAttrLoading(S, inst, name) ==
    LoadAndUpdate(S, inst, NoKey, "none", "none")

\* __getattr__ leaves the state alone
GetAttr(S, inst, name) == S

\* self.meta.get(name)
MetaGet(m, name) ==
    CASE name = "md5" -> m.md5
      [] name = "timestamp" -> m.timestamp
      [] name = "firstdate" -> m.firstdate
      [] name = "lastdate" -> m.lastdate
      [] name = "activeuserscount" -> m.activeuserscount
      [] OTHER -> None

\* ---- the operations of the process ------------------------------------
Op(op, inst, name) == [op |-> op, inst |-> inst, name |-> name]

\* no more than MaxEvents events happen around the program
MoreEvents == wikiOps + faults + restarts < MaxEvents

InCalls(cs, name) == \E j \in 1..Len(cs) : cs[j] = name

\* A fault injected into an operation: a failing API query or a failing write.
Faults == RemoteFaults \cup DumpFaults
Rf(fault) == IF fault \in RemoteFaults THEN fault ELSE "none"
Df(fault) == IF fault \in DumpFaults THEN fault ELSE "none"

\* The state a method has reached becomes the state of the process.  A fault
\* is one that struck: the operation raised what the fault raises.
CommitProc(S, op, fault) ==
    /\ S.now <= MaxTime
    /\ fault # "none" => /\ MoreEvents
                         /\ S.err = (IF fault \in RemoteFaults THEN "APIError" ELSE "OSError")
    /\ faults' = IF fault # "none" THEN faults + 1 ELSE faults
    /\ UNCHANGED restarts
    /\ now' = S.now
    /\ meta' = S.meta
    /\ data' = S.data
    /\ dbfile' = S.db
    /\ metafile' = S.mf
    /\ calls' = S.calls
    /\ lastErr' = S.err
    /\ tsAtUpdate' = S.tsAtUpdate
    /\ requests' = S.requests
    /\ lastOp' = op
    /\ tampered' = [i \in Insts |->
                        IF i = op.inst /\ InCalls(S.calls, "dump") THEN FALSE ELSE tampered[i]]
    /\ UNCHANGED autocommit

Commit(S, op, fault) == CommitProc(S, op, fault) /\ UNCHANGED wikiVars

\* The accessors used on the two caches.
Accesses ==
    {[inst |-> Users, acc |-> a, key |-> NoKey] : a \in {"iter", "reversed"}}
    \cup {[inst |-> Text, acc |-> a, key |-> NoKey] : a \in {"iter", "reversed"}}
    \cup {[inst |-> Text, acc |-> a, key |-> k] :
            a \in {"getitem", "contains"}, k \in {StrKey(0), StrKey(1), IntKey(1)}}

\* db[key], key in db, iter(db), reversed(db)
Access(a, fault) ==
    /\ Commit(Accessor(Proc, a.inst, a.acc, a.key, Rf(fault), Df(fault)),
              Op("access", a.inst, ""), fault)
    /\ UNCHANGED attrResult

\* An access of AllUsersProps whose update is overtaken by the wiki: the log
\* event of user u happens after the log query of the update and before the
\* update stores the checkpoint.
AccessDuringEvent(a, u, letype) ==
    LET S == Accessor([Proc EXCEPT !.lag = 1], a.inst, a.acc, a.key, "none", "none")
    IN  /\ a.inst = Users
        /\ MoreEvents
        /\ wikiUsers[u] < MaxVer
        /\ (wikiUsers[u] = 0) = (letype = "newusers")
        /\ S.during # None
        /\ CommitProc(S, Op("access", a.inst, ""), "none")
        /\ wikiUsers' = [wikiUsers EXCEPT ![u] = @ + 1]
        /\ wikiLog' = Append(wikiLog, [ts |-> Get(S.during), user |-> u, letype |-> letype])
        /\ wikiOps' = wikiOps + 1
        /\ UNCHANGED <<attrResult, wikiRc, oldestRc, wikiPages>>

\* db.load()
LoadCall(inst, fault) ==
    /\ Commit(Load(Proc, inst, NoKey, Rf(fault), Df(fault)), Op("load", inst, ""), fault)
    /\ UNCHANGED attrResult

\* db.dump(), called by hand once the database is initialized
DumpCall(inst, df) ==
    /\ data[inst] # None
    /\ meta.timestamp # None
    /\ Commit(Dump(Proc, inst, df), Op("dump", inst, ""), df)
    /\ UNCHANGED attrResult

AttrNames == {"timestamp", "nosuchfield"}

\* db.timestamp, db.md5, ...
AttrRead(inst, name) ==
    LET S == GetAttr(Proc, inst, name)
    IN  /\ Commit(S, Op("attr", inst, name), "none")
        /\ attrResult' = MetaGet(SelfMeta(S, inst), name)

\* The process ends and a new one constructs its caches: the class dict is
\* empty again, no data is in memory, the files stay.
Restart ==
    /\ MoreEvents
    /\ restarts' = restarts + 1
    /\ meta' = EmptyMeta
    /\ data' = [i \in Insts |-> None]
    /\ calls' = <<>>
    /\ lastErr' = "none"
    /\ tsAtUpdate' = None
    /\ requests' = <<>>
    /\ attrResult' = None
    /\ lastOp' = Op("restart", Users, "")
    /\ UNCHANGED <<now, autocommit, dbfile, metafile, tampered, faults, wikiVars>>

\* ---- the environment --------------------------------------------------
\* A payload file as dumped is changed: one value of it, one token of its
\* syntax, or the gzip container.
Tampered(f, kind, pos) ==
    CASE kind = "value" -> [f EXCEPT !.toks[pos].v = IF @ = 0 THEN 1 ELSE 0]
      [] kind = "syntax" -> [f EXCEPT !.toks[pos].t = "junk"]
      [] kind = "gzip" -> [f EXCEPT !.gz = FALSE]

Tamper(inst, kind) ==
    /\ dbfile[inst] # None
    /\ ~tampered[inst]
    /\ MoreEvents
    /\ faults' = faults + 1
    /\ Get(dbfile[inst]).gz
    /\ \E pos \in (IF kind = "gzip" THEN {0} ELSE 1..Len(Get(dbfile[inst]).toks)) :
            dbfile' = [dbfile EXCEPT ![inst] = Some(Tampered(Get(@), kind, pos))]
    /\ tampered' = [tampered EXCEPT ![inst] = TRUE]
    /\ lastOp' = Op("tamper", inst, "")
    /\ calls' = <<>>
    /\ lastErr' = "none"
    /\ UNCHANGED <<now, meta, data, autocommit, metafile, attrResult, tsAtUpdate, requests, restarts,
                   wikiVars>>

\* An account is created, or its rights or block change.
WikiUserEvent(u, letype) ==
    /\ MoreEvents
    /\ wikiUsers[u] < MaxVer
    /\ (wikiUsers[u] = 0) = (letype = "newusers")
    /\ wikiUsers' = [wikiUsers EXCEPT ![u] = @ + 1]
    /\ wikiLog' = Append(wikiLog, [ts |-> now, user |-> u, letype |-> letype])
    /\ wikiOps' = wikiOps + 1
    /\ UNCHANGED <<procVars, wikiRc, oldestRc, wikiPages>>

\* A user edits (or creates) a page.
WikiEdit(u, n, title) ==
    /\ MoreEvents
    /\ wikiUsers[u] > 0
    /\ wikiRc' = Append(wikiRc, [ts |-> now, user |-> u])
    /\ wikiPages' = [wikiPages EXCEPT ![n][title] = now]
    /\ wikiOps' = wikiOps + 1
    /\ UNCHANGED <<procVars, wikiUsers, wikiLog, oldestRc>>

\* A page is deleted: the API lists it no more.
WikiDeletePage(n, title) ==
    /\ MoreEvents
    /\ wikiPages[n][title] > 0
    /\ wikiPages' = [wikiPages EXCEPT ![n][title] = 0]
    /\ wikiOps' = wikiOps + 1
    /\ UNCHANGED <<procVars, wikiUsers, wikiLog, wikiRc, oldestRc>>

\* A user is renamed: the API has no user of the old name any more, and the
\* rename is in none of the logs the cache reads.
WikiRenameUser(u) ==
    /\ MoreEvents
    /\ wikiUsers[u] > 0
    /\ wikiUsers' = [wikiUsers EXCEPT ![u] = 0]
    /\ wikiOps' = wikiOps + 1
    /\ UNCHANGED <<procVars, wikiLog, wikiRc, oldestRc, wikiPages>>

\* The recent changes older than now are purged.
RECURSIVE RcSince(_, _)
RcSince(ts, i) ==
    IF i > Len(wikiRc) THEN <<>>
    ELSE (IF wikiRc[i].ts >= ts THEN <<wikiRc[i]>> ELSE <<>>) \o RcSince(ts, i + 1)

WikiPurgeRc ==
    /\ MoreEvents
    /\ oldestRc < now
    /\ oldestRc' = now
    /\ wikiRc' = RcSince(now, 1)
    /\ wikiOps' = wikiOps + 1
    /\ UNCHANGED <<procVars, wikiUsers, wikiLog, wikiPages>>

\* ------------------------------------------------------------------------
\* grab.py
\* ------------------------------------------------------------------------
MaxList == 2        \* entries in a list of the mirror or of the API
NumIds == 2         \* page ids 1..NumIds

\* The lists over a set of entries.
ListsOf(E) == UNION {[1..n -> E] : n \in 0..MaxList}

\* An entry of list=logevents and the like: an id and the rest of the entry.
Entries == [pageid : 1..NumIds, val : {0, 1}]

\* An entry of list=recentchanges: the rest of the entry and the keys
\* patrolled, autopatrolled, unpatrolled, each there or not.
RcEntries == [val : {0, 1}, patrolled : BOOLEAN, autopatrolled : BOOLEAN]

\* What a check did: the lists as compared, the positions compared, the
\* positions whose diff was printed, the traceback printed ([kind, args] of the
\* AssertionError, kind "none" when nothing was printed), and the exception
\* that reached the caller.
Outcome(db, api, compared, reported, tb, raised) ==
    [db |-> db, api |-> api, compared |-> compared, reported |-> reported,
     traceback |-> tb, raised |-> raised]

NoTraceback == [kind |-> "none", args |-> <<>>]
Traceback(kind, args) == [kind |-> kind, args |-> args]

\* _check_entries: assert db_entry == api_entry
EntriesEqual(db_entry, api_entry) == db_entry = api_entry

\* the loop of _check_lists over zip(db_list, api_list): the positions whose
\* assertion failed, each caught and remembered
RECURSIVE FailedFrom(_, _, _)
FailedFrom(db, api, i) ==
    IF i > Len(db) \/ i > Len(api) THEN <<>>
    ELSE (IF EntriesEqual(db[i], api[i]) THEN <<>> ELSE <<i>>) \o FailedFrom(db, api, i + 1)

Positions(n) == [i \in 1..n |-> i]

Min(a, b) == IF a <= b THEN a ELSE b

\* _check_lists
CheckLists(db, api) ==
    IF Len(db) # Len(api)
    THEN Outcome(db, api, <<>>, <<>>, Traceback("length", <<Len(db), Len(api)>>), "none")
    ELSE LET failed == FailedFrom(db, api, 1)
         IN  Outcome(db, api, Positions(Len(db)), failed,
                     IF failed # <<>> THEN Traceback("from_last", <<>>) ELSE NoTraceback,
                     "none")

\* del api_entry["autopatrolled"], ["unpatrolled"], ["patrolled"]; del db_entry["patrolled"]
RcApiEntry(e) == [e EXCEPT !.autopatrolled = FALSE, !.patrolled = FALSE]
RcDbEntry(e) == [e EXCEPT !.patrolled = FALSE]

\* the loop of check_recentchanges: the first failed assertion leaves the loop
RECURSIVE RcLoop(_, _, _)
RcLoop(db, api, i) ==
    IF i > Len(db) THEN Outcome(db, api, Positions(Len(db)), <<>>, NoTraceback, "none")
    ELSE LET db1 == [db EXCEPT ![i] = RcDbEntry(@)]
             api1 == [api EXCEPT ![i] = RcApiEntry(@)]
         IN  IF EntriesEqual(db1[i], api1[i]) THEN RcLoop(db1, api1, i + 1)
             ELSE Outcome(db1, api1, Positions(i), <<i>>, Traceback("entry", <<>>), "none")

\* check_recentchanges, from the assertion on the lengths
CheckRecentchanges(db, api) ==
    IF Len(db) # Len(api)
    THEN Outcome(db, api, <<>>, <<>>, Traceback("length", <<Len(db), Len(api)>>), "none")
    ELSE RcLoop(db, api, 1)

\* sorted(list, key=lambda item: item["pageid"]): a stable sort
RECURSIVE InsertByPageid(_, _, _)
InsertByPageid(s, e, i) ==
    IF i > Len(s) \/ s[i].pageid > e.pageid
    THEN SubSeq(s, 1, i - 1) \o <<e>> \o SubSeq(s, i, Len(s))
    ELSE InsertByPageid(s, e, i + 1)

RECURSIVE SortedByPageid(_)
SortedByPageid(l) ==
    IF l = <<>> THEN <<>>
    ELSE InsertByPageid(SortedByPageid(SubSeq(l, 1, Len(l) - 1)), l[Len(l)], 1)

\* A slip: only the list of the API is sorted.
CheckListsOfApiSorted(db, api) == CheckLists(db, SortedByPageid(api))

\* _check_lists_of_unordered_pages
CheckListsOfUnorderedPages(db, api) == CheckLists(SortedByPageid(db), SortedByPageid(api))

\* Timestamps are datetimes counted in milliseconds.
Tolerance == 1000   \* datetime.timedelta(seconds=1)

Times == {0, 1, 1000, 1001, 2001}

\* An entry of list=protectedtitles: its timestamp, NoTimestamp when it has
\* no such key.
NoTimestamp == 0 - 1
PtEntries == [timestamp : Times \cup {NoTimestamp}]

Abs(n) == IF n < 0 THEN 0 - n ELSE n

\* A slip: a difference of exactly one second not tolerated.
WithinToleranceStrict(a, b) == Abs(a - b) < Tolerance

\* abs(db_entry["timestamp"] - api_entry["timestamp"]) <= datetime.timedelta(seconds=1)
WithinTolerance(a, b) == Abs(a - b) <= Tolerance

\* the loop of check_protected_titles over zip(db_list, api_list)
SnapTimestamps(db, api) ==
    [i \in 1..Len(db) |->
        IF /\ i <= Len(api)
           /\ db[i].timestamp # NoTimestamp
           /\ api[i].timestamp # NoTimestamp
           /\ WithinTolerance(db[i].timestamp, api[i].timestamp)
        THEN [db[i] EXCEPT !.timestamp = api[i].timestamp]
        ELSE db[i]]

\* check_protected_titles, from the loop on
CheckProtectedTitles(db, api) == CheckLists(SnapTimestamps(db, api), api)

\* A page as the API yields it when several properties are asked for: the
\* pageid and the properties this piece carries.
PartialRecords == [pageid : 1..NumIds, a : {NoField, 1, 2}, b : {NoField, 2}]

\* A page of generator=allpages with prop=info|revisions, in pieces.
PartialPages ==
    UNION {{[title |-> n, pageid |-> p, touched |-> tch] :
                p \in {NoField, n}, tch \in {NoField, 1, 2}} : n \in 1..NumIds}

\* A slip: the records of a pageid that is repeated are not merged.
SquashFromUnmerged(acc, list, i) == acc \o SubSeq(list, i, Len(list))

\* _squash_list_of_dicts: acc holds the values of api_dict in insertion order
RECURSIVE SquashFrom(_, _, _)
SquashFrom(acc, list, i) ==
    IF i > Len(list) THEN acc
    ELSE IF \E j \in 1..Len(acc) : acc[j].pageid = list[i].pageid
         THEN SquashFrom([j \in 1..Len(acc) |->
                            IF acc[j].pageid = list[i].pageid THEN Dmerge(list[i], acc[j])
                            ELSE acc[j]], list, i + 1)
         ELSE SquashFrom(Append(acc, list[i]), list, i + 1)

SquashListOfDicts(api_list) == SquashFrom(<<>>, api_list, 1)

\* list.sort(key=...): a stable sort of the items by their keys; keyed is the
\* sequence of [key, item]
RECURSIVE InsertByKey(_, _, _)
InsertByKey(s, e, i) ==
    IF i > Len(s) \/ s[i].key > e.key
    THEN SubSeq(s, 1, i - 1) \o <<e>> \o SubSeq(s, i, Len(s))
    ELSE InsertByKey(s, e, i + 1)

RECURSIVE SortedByKey(_)
SortedByKey(keyed) ==
    IF keyed = <<>> THEN <<>>
    ELSE InsertByKey(SortedByKey(SubSeq(keyed, 1, Len(keyed) - 1)), keyed[Len(keyed)], 1)

Items(keyed) == [i \in 1..Len(keyed) |-> keyed[i].item]

\* A page of prop=templates, prop=categories and prop=extlinks.
TemplatesPage(l) == [pageid |-> 1, templates |-> l]

CategoriesPage(l) == [pageid |-> 1, categories |-> l]

ExtlinksPage(l) == [pageid |-> 1, extlinks |-> l]

\* entry.get("templates", []).sort(key=lambda t: (t["ns"], t["title"])): the
\* templates are numbered in the order of (ns, title)
SortedTemplates(l) == Items(SortedByKey([i \in 1..Len(l) |-> [key |-> l[i], item |-> l[i]]]))

\* The sort applied to the mirror's list as well.
CheckTemplatelinksBothSorted(db, api) ==
    LET api1 == SquashListOfDicts(api)
        db2 == [i \in 1..Len(db) |-> [db[i] EXCEPT !.templates = SortedTemplates(@)]]
        api2 == [i \in 1..Len(api1) |-> [api1[i] EXCEPT !.templates = SortedTemplates(@)]]
    IN  CheckListsOfUnorderedPages(db2, api2)

\* check_templatelinks, from the squash on
CheckTemplatelinks(db, api) ==
    LET api1 == SquashListOfDicts(api)
        api2 == [i \in 1..Len(api1) |-> [api1[i] EXCEPT !.templates = SortedTemplates(@)]]
    IN  CheckListsOfUnorderedPages(db, api2)

\* Category 0 stands for the automatic categories the mirror does not track.
AutomaticCategory == 0

\* page["categories"] without the automatic categories; the key is deleted
\* when nothing is left
WithoutAutomatic(cats) ==
    IF cats = None THEN None
    ELSE LET kept == SelectSeq(Get(cats), LAMBDA c : c # AutomaticCategory)
         IN  IF kept = <<>> THEN None ELSE Some(kept)

\* check_categorylinks, from the squash on
CheckCategorylinks(db, api) ==
    LET api1 == SquashListOfDicts(api)
        api2 == [i \in 1..Len(api1) |-> [api1[i] EXCEPT !.categories = WithoutAutomatic(@)]]
    IN  CheckListsOfUnorderedPages(db, api2)

\* An external link: the URL it points to, whether it is written with
\* URL-encoded characters, and whether it starts with api.index_url.
ExtLink(url, encoded, self) == [url |-> url, encoded |-> encoded, self |-> self]

ExtLinks ==
    {ExtLink(1, FALSE, FALSE), ExtLink(2, FALSE, FALSE), ExtLink(2, TRUE, FALSE),
     ExtLink(3, FALSE, TRUE)}

\* el["*"] as a sort key: the encoded spelling of a URL sorts before the
\* decoded one
Spelling(el) == 2 * el.url + (IF el.encoded THEN 0 ELSE 1)

\* urldecode(el["*"])
Urldecode(el) == [el EXCEPT !.encoded = FALSE]

\* [el for el in page["extlinks"] if not el["*"].startswith(api.index_url)]
WithoutSelfLinks(l) == SelectSeq(l, LAMBDA el : ~el.self)

\* page["extlinks"].sort(key=lambda d: d["*"]), then each el["*"] decoded
SortedDecoded(l) ==
    LET sorted == Items(SortedByKey([i \in 1..Len(l) |-> [key |-> Spelling(l[i]), item |-> l[i]]]))
    IN  [i \in 1..Len(sorted) |-> Urldecode(sorted[i])]

\* check_external_links, from the squash on
CheckExternalLinks(db, api) ==
    LET api1 == SquashListOfDicts(api)
        db2 == [i \in 1..Len(db) |-> [db[i] EXCEPT !.extlinks = WithoutSelfLinks(@)]]
        api2 == [i \in 1..Len(api1) |-> [api1[i] EXCEPT !.extlinks = SortedDecoded(@)]]
    IN  CheckListsOfUnorderedPages(db2, api2)

\* The checks of __main__, each on the lists of its dataset.
Checked(dataset, out) ==
    /\ chkIn.dataset = dataset
    /\ chkOut = None
    /\ chkOut' = Some(out)
    /\ UNCHANGED <<chkIn, mainArgs, mainDone, mainErr, arg, ret>>

CheckLogging == Checked("logging", CheckLists(chkIn.db, chkIn.api))

CheckRecentchangesCall == Checked("recentchanges", CheckRecentchanges(chkIn.db, chkIn.api))

CheckAllpages == Checked("allpages", CheckListsOfUnorderedPages(chkIn.db, chkIn.api))

CheckProtectedTitlesCall ==
    Checked("protectedtitles", CheckProtectedTitles(chkIn.db, chkIn.api))

CheckTemplatelinksCall == Checked("templatelinks", CheckTemplatelinks(chkIn.db, chkIn.api))

CheckCategorylinksCall == Checked("categorylinks", CheckCategorylinks(chkIn.db, chkIn.api))

CheckExternalLinksCall == Checked("extlinks", CheckExternalLinks(chkIn.db, chkIn.api))

\* api_list = _squash_list_of_dicts(api_list), as the checks of the link
\* tables begin
SquashCall ==
    Checked("squash", Outcome(chkIn.db, SquashListOfDicts(chkIn.api), <<>>, <<>>,
                              NoTraceback, "none"))

\* the loop of LatestRevisionsText.init over the pages the generator yields;
\* the list built is the mirror's side
InitPagesCall ==
    Checked("initpages", Outcome(InitPages(<<>>, chkIn.api, 1), chkIn.api, <<>>, <<>>,
                                 NoTraceback, "none"))

Datasets ==
    {"logging", "recentchanges", "allpages", "protectedtitles", "squash", "templatelinks",
     "categorylinks", "extlinks", "initpages"}

\* The lists a dataset can come as.
CheckInputs(dataset) ==
    CASE dataset = "logging" ->
            {[dataset |-> dataset, db |-> db, api |-> api] :
                db \in ListsOf(Entries), api \in ListsOf(Entries)}
      [] dataset = "recentchanges" ->
            {[dataset |-> dataset, db |-> db, api |-> api] :
                db \in ListsOf(RcEntries), api \in ListsOf(RcEntries)}
      [] dataset = "allpages" ->
            {[dataset |-> dataset, db |-> db, api |-> api] :
                db \in ListsOf(Entries), api \in ListsOf(Entries)}
      [] dataset = "protectedtitles" ->
            {[dataset |-> dataset, db |-> db, api |-> api] :
                db \in ListsOf(PtEntries), api \in ListsOf(PtEntries)}
      [] dataset = "squash" ->
            {[dataset |-> dataset, db |-> <<>>, api |-> api] : api \in ListsOf(PartialRecords)}
      [] dataset = "templatelinks" ->
            {[dataset |-> dataset, db |-> <<TemplatesPage(d)>>, api |-> <<TemplatesPage(a)>>] :
                d \in ListsOf(1..NumIds), a \in ListsOf(1..NumIds)}
      [] dataset = "categorylinks" ->
            {[dataset |-> dataset, db |-> <<CategoriesPage(d)>>, api |-> <<CategoriesPage(a)>>] :
                d \in {None} \cup {Some(l) : l \in ListsOf(0..NumIds) \ {<<>>}},
                a \in {None} \cup {Some(l) : l \in ListsOf(0..NumIds) \ {<<>>}}}
      [] dataset = "extlinks" ->
            {[dataset |-> dataset, db |-> <<ExtlinksPage(d)>>, api |-> <<ExtlinksPage(a)>>] :
                d \in ListsOf(ExtLinks), a \in ListsOf(ExtLinks)}
      [] dataset = "initpages" ->
            {[dataset |-> dataset, db |-> <<>>, api |-> api] : api \in ListsOf(PartialPages)}

\* The checks __main__ calls with --sync, and those it calls with
\* --parser-cache, in the order of the calls.
SyncChecks ==
    <<"check_titles", "check_specific_titles", "check_recentchanges", "check_logging",
      "check_users", "check_allpages", "check_info", "check_pageprops",
      "check_protected_titles", "check_revisions", "check_latest_revisions",
      "check_revisions_of_main_page">>

ParserCacheChecks == <<"check_imagelinks", "check_interwiki_links", "check_redirects">>

MainChecks(args) ==
    (IF args.sync THEN SyncChecks ELSE <<>>)
    \o (IF args.parser_cache THEN ParserCacheChecks ELSE <<>>)

\* How a check ends, given what it met: the mirror and the wiki agree
\* ("equal"), they differ ("mismatch"), or a query of the check fails
\* ("apierror").  The lists are compared by _check_lists, which prints and
\* returns; check_specific_titles compares with plain assert statements.
CheckRaises(check, met) ==
    CASE met = "apierror" -> "APIError"
      [] met = "mismatch" /\ check = "check_specific_titles" -> "AssertionError"
      [] OTHER -> "none"

\* the next call of __main__; an exception a check raises ends the script
MainCheck(met) ==
    /\ mainErr = "none"
    /\ Len(mainDone) < Len(MainChecks(mainArgs))
    /\ LET check == MainChecks(mainArgs)[Len(mainDone) + 1]
       IN  /\ mainDone' = Append(mainDone, [check |-> check, met |-> met])
           /\ mainErr' = CheckRaises(check, met)
    /\ UNCHANGED <<chkIn, chkOut, mainArgs, arg, ret>>

\* No function has been called.
NoCall ==
    /\ arg = [fn |-> "none"]
    /\ ret = None

\* Nothing has been checked and __main__ has not run.
CheckIdle ==
    /\ chkIn = [dataset |-> "none", db |-> <<>>, api |-> <<>>]
    /\ chkOut = None
    /\ mainArgs = [sync |-> TRUE, parser_cache |-> FALSE]
    /\ mainDone = <<>>
    /\ mainErr = "none"

MainStart ==
    /\ mainDone = <<>>
    /\ mainErr = "none"
    /\ NoCall

CheckStart ==
    /\ chkIn = [dataset |-> "none", db |-> <<>>, api |-> <<>>]
    /\ chkOut = None
    /\ mainArgs = [sync |-> TRUE, parser_cache |-> FALSE]
    /\ MainStart

\* ---- specifications ---------------------------------------------------
\* The wiki when the program starts: one user, who made one edit of one page.
WikiStart ==
    /\ wikiUsers = [u \in Names |-> IF u = 1 THEN 1 ELSE 0]
    /\ wikiLog = <<[ts |-> 0, user |-> 1, letype |-> "newusers"]>>
    /\ wikiRc = <<[ts |-> 1, user |-> 1]>>
    /\ oldestRc = 0 - ActiveDays * DayLen
    /\ wikiPages = [n \in Namespaces |-> [title \in Titles |-> IF n = 0 /\ title = 1 THEN 1 ELSE 0]]
    /\ wikiOps = 0

CacheStart ==
    /\ now = 1
    /\ meta = EmptyMeta
    /\ data = [i \in Insts |-> None]
    /\ dbfile = [i \in Insts |-> None]
    /\ metafile = [i \in Insts |-> None]
    /\ calls = <<>>
    /\ lastOp = Op("restart", Users, "")
    /\ lastErr = "none"
    /\ attrResult = None
    /\ tsAtUpdate = None
    /\ requests = <<>>
    /\ tampered = [i \in Insts |-> FALSE]
    /\ faults = 0
    /\ restarts = 0
    /\ WikiStart

IwStart ==
    /\ interwiki = {}
    /\ logging = <<>>
    /\ iwOps = <<>>
    /\ iwErr = "none"
    /\ iwRun = [valid |-> FALSE, since |-> 0]
    /\ iwBefore = {}
    /\ iwReplay = FALSE
    /\ iwRuns = 0
    /\ interwikimap = <<>>

Init ==
    /\ autocommit = [i \in Insts |-> TRUE]
    /\ CacheStart
    /\ CheckStart
    /\ IwStart

\* The methods called on the caches of I, with the faults of F striking.
Program(I, F) ==
    \/ \E a \in Accesses, fault \in F : a.inst \in I /\ Access(a, fault) /\ UNCHANGED <<iwVars, checkVars>>
    \/ \E i \in I, fault \in F : LoadCall(i, fault) /\ UNCHANGED <<iwVars, checkVars>>
    \/ \E i \in I, df \in F \cap (DumpFaults \cup {"none"}) : DumpCall(i, df) /\ UNCHANGED <<iwVars, checkVars>>
    \/ \E i \in I, name \in AttrNames : AttrRead(i, name) /\ UNCHANGED <<iwVars, checkVars>>

\* What happens to the process and to the files of the caches of I.
Environment(I) ==
    \/ Restart /\ UNCHANGED <<iwVars, checkVars>>
    \/ \E i \in I, kind \in {"value", "syntax", "gzip"} : Tamper(i, kind) /\ UNCHANGED <<iwVars, checkVars>>

\* What happens on the wiki.
Wiki ==
    \/ \E u \in Names, letype \in {"newusers", "rights", "block"} :
            WikiUserEvent(u, letype) /\ UNCHANGED <<iwVars, checkVars>>
    \/ \E u \in Names, n \in Namespaces, title \in Titles : WikiEdit(u, n, title) /\ UNCHANGED <<iwVars, checkVars>>
    \/ WikiPurgeRc /\ UNCHANGED <<iwVars, checkVars>>

Next == Program(Insts, Faults) \/ Environment(Insts) \/ Wiki

Spec == Init /\ [][Next]_vars

\* one cache alone, with everything that can happen around it
NextUsers == Program({Users}, Faults) \/ Environment({Users}) \/ Wiki
SpecUsers == Init /\ [][NextUsers]_vars

\* the LatestRevisionsText alone and the wiki, nothing failing
NextText == Program({Text}, {"none"}) \/ Wiki
SpecText == Init /\ [][NextText]_vars

\* the two caches in one process and the wiki, nothing failing
NextBoth == Program(Insts, {"none"}) \/ Wiki
SpecBoth == Init /\ [][NextBoth]_vars

\* A process constructed on the files an earlier process left: that process
\* initialized AllUsersProps and dumped it, and the payload is as dumped or
\* was changed since.
Constructed ==
    [meta |-> EmptyMeta, data |-> [i \in Insts |-> None], db |-> [i \in Insts |-> None],
     mf |-> [i \in Insts |-> None], now |-> 1, calls |-> <<>>, err |-> "none",
     tsAtUpdate |-> None, requests |-> <<>>, lag |-> 0, during |-> None]

InitReload ==
    /\ autocommit = [i \in Insts |-> TRUE]
    /\ WikiStart
    /\ CheckStart
    /\ IwStart
    /\ LET left == UsersInit(Constructed, "none", "none")
           f == Get(left.db[Users])
       IN  /\ now = left.now
           /\ metafile = left.mf
           /\ \E kind \in {"none", "value", "syntax", "gzip"} :
                /\ tampered = [i \in Insts |-> i = Users /\ kind # "none"]
                /\ IF kind = "none" THEN dbfile = left.db
                   ELSE \E pos \in (IF kind = "gzip" THEN {0} ELSE 1..Len(f.toks)) :
                            dbfile = [left.db EXCEPT ![Users] = Some(Tampered(f, kind, pos))]
    /\ meta = EmptyMeta
    /\ data = [i \in Insts |-> None]
    /\ calls = <<>>
    /\ lastOp = Op("restart", Users, "")
    /\ lastErr = "none"
    /\ attrResult = None
    /\ tsAtUpdate = None
    /\ requests = <<>>
    /\ faults = 0
    /\ restarts = 0

SpecReload == InitReload /\ [][NextUsers]_vars

\* the two caches and a wiki on which pages are deleted and users renamed,
\* nothing failing
WikiRemoval ==
    \/ \E n \in Namespaces, title \in Titles :
            WikiDeletePage(n, title) /\ UNCHANGED <<iwVars, checkVars>>
    \/ \E u \in Names : WikiRenameUser(u) /\ UNCHANGED <<iwVars, checkVars>>

NextRemoval == Program(Insts, {"none"}) \/ WikiRemoval
SpecRemoval == Init /\ [][NextRemoval]_vars

\* AllUsersProps and the wiki, nothing failing, and the wiki changing while an
\* update runs
NextRace ==
    \/ Program({Users}, {"none"})
    \/ Wiki
    \/ \E a \in Accesses, u \in Names, letype \in {"newusers", "rights", "block"} :
            AccessDuringEvent(a, u, letype) /\ UNCHANGED <<iwVars, checkVars>>

SpecRace == Init /\ [][NextRace]_vars

\* a cache constructed with autocommit=True or autocommit=False, and the wiki,
\* nothing failing
InitCommit ==
    /\ autocommit \in {[i \in Insts |-> b] : b \in BOOLEAN}
    /\ CacheStart
    /\ CheckStart
    /\ IwStart
NextCommit == Program({Users}, {"none"}) \/ Wiki
SpecCommit == InitCommit /\ [][NextCommit]_vars

\* the same with the two caches in one process
NextCommitBoth == Program(Insts, {"none"}) \/ Wiki
SpecCommitBoth == InitCommit /\ [][NextCommitBoth]_vars

IwInit ==
    /\ autocommit = [i \in Insts |-> TRUE]
    /\ CacheStart
    /\ CheckStart
    /\ interwiki \in IwTables
    /\ logging = <<>>
    /\ iwOps = <<>>
    /\ iwErr = "none"
    /\ iwRun = [valid |-> FALSE, since |-> 0]
    /\ iwBefore = interwiki
    /\ iwReplay = FALSE
    /\ iwRuns = 0
    /\ interwikimap = <<>>

IwNext ==
    \/ \E e \in IwEvents : LogEvent(e) /\ UNCHANGED <<cacheVars, checkVars>>
    \/ \E since \in 1..(MaxLog + 1) : RunGenUpdate(since) /\ UNCHANGED <<cacheVars, checkVars>>

SpecIw == IwInit /\ [][IwNext]_vars

\* gen_insert run on a table, the wiki having any of the interwikimaps
IwInsertInit ==
    /\ autocommit = [i \in Insts |-> TRUE]
    /\ CacheStart
    /\ CheckStart
    /\ interwiki \in IwTables
    /\ logging = <<>>
    /\ iwOps = <<>>
    /\ iwErr = "none"
    /\ iwRun = [valid |-> FALSE, since |-> 0]
    /\ iwBefore = interwiki
    /\ iwReplay = FALSE
    /\ iwRuns = 0
    /\ interwikimap \in IwMaps

IwInsertNext == RunGenInsert /\ UNCHANGED <<cacheVars, checkVars>>

SpecIwInsert == IwInsertInit /\ [][IwInsertNext]_vars

\* ---- the wiki's interwiki table changed through Special:Interwiki --------
\* Every change is logged with the parameters _transform_logevent_params
\* reads: "0" prefix, "1" url, "2" trans, "3" local; a deletion logs the prefix.
HasPrefix(map, p) == \E i \in 1..Len(map) : map[i].prefix = p

Flag(b) == IF b THEN "1" ELSE "0"

Logged(action, params) ==
    Append(logging, [type |-> "interwiki", action |-> action, params |-> params,
                     timestamp |-> Len(logging) + 1])

SiteChanged ==
    /\ iwRun' = [iwRun EXCEPT !.valid = FALSE]
    /\ iwReplay' = FALSE
    /\ UNCHANGED <<interwiki, iwOps, iwErr, iwBefore, iwRuns>>

SiteAdd(p, url, trans, local) ==
    /\ Len(logging) < MaxLog
    /\ ~HasPrefix(interwikimap, p)
    /\ interwikimap' = Append(interwikimap, SiteEntry(p, url, Absent, local, trans))
    /\ logging' = Logged("iw_add", Params(p, url, Flag(trans), Flag(local)))
    /\ SiteChanged

SiteEdit(p, url, trans, local) ==
    /\ Len(logging) < MaxLog
    /\ HasPrefix(interwikimap, p)
    /\ interwikimap' = [i \in 1..Len(interwikimap) |->
                            IF interwikimap[i].prefix = p
                            THEN SiteEntry(p, url, interwikimap[i].api, local, trans)
                            ELSE interwikimap[i]]
    /\ logging' = Logged("iw_edit", Params(p, url, Flag(trans), Flag(local)))
    /\ SiteChanged

SiteDelete(p) ==
    /\ Len(logging) < MaxLog
    /\ HasPrefix(interwikimap, p)
    /\ interwikimap' = SelectSeq(interwikimap, LAMBDA e : e.prefix # p)
    /\ logging' = Logged("iw_delete", Params(p, Absent, Absent, Absent))
    /\ SiteChanged

\* the rows of a mirror that agrees with the interwikimap
MirrorOf(map) == {Excluded(InsertEntry(map[i])) : i \in 1..Len(map)}

\* The interwikimaps the mirror was filled from at the checkpoint.
SyncMaps ==
    { <<>>,
      <<SiteEntry("en", "u0", "a0", TRUE, FALSE)>>,
      <<SiteEntry("en", "u0", Absent, TRUE, FALSE), SiteEntry("de", "u1", Absent, FALSE, TRUE)>> }

\* the mirror agrees with the wiki at the checkpoint (timestamp 1); from then
\* on the wiki changes, every change logged, and gen_update(1) is run
IwSyncInit ==
    /\ autocommit = [i \in Insts |-> TRUE]
    /\ CacheStart
    /\ CheckStart
    /\ interwikimap \in SyncMaps
    /\ interwiki = MirrorOf(interwikimap)
    /\ logging = <<>>
    /\ iwOps = <<>>
    /\ iwErr = "none"
    /\ iwRun = [valid |-> FALSE, since |-> 0]
    /\ iwBefore = interwiki
    /\ iwReplay = FALSE
    /\ iwRuns = 0

IwSyncNext ==
    \/ \E p \in Prefixes, url \in {"u0", "u1"}, trans \in BOOLEAN, local \in BOOLEAN :
            SiteAdd(p, url, trans, local) /\ UNCHANGED <<cacheVars, checkVars>>
    \/ \E p \in Prefixes, url \in {"u0", "u1"}, trans \in BOOLEAN, local \in BOOLEAN :
            SiteEdit(p, url, trans, local) /\ UNCHANGED <<cacheVars, checkVars>>
    \/ \E p \in Prefixes : SiteDelete(p) /\ UNCHANGED <<cacheVars, checkVars>>
    \/ RunGenUpdate(1) /\ UNCHANGED <<cacheVars, checkVars>>

SpecIwSync == IwSyncInit /\ [][IwSyncNext]_vars

\* a check of grab.py run on the lists of its dataset
CheckInit ==
    /\ autocommit = [i \in Insts |-> TRUE]
    /\ CacheStart
    /\ IwStart
    /\ \E dataset \in Datasets : chkIn \in CheckInputs(dataset)
    /\ chkOut = None
    /\ mainArgs = [sync |-> TRUE, parser_cache |-> FALSE]
    /\ MainStart

CheckNext ==
    \/ CheckLogging /\ UNCHANGED <<iwVars, cacheVars>>
    \/ CheckRecentchangesCall /\ UNCHANGED <<iwVars, cacheVars>>
    \/ CheckAllpages /\ UNCHANGED <<iwVars, cacheVars>>
    \/ CheckProtectedTitlesCall /\ UNCHANGED <<iwVars, cacheVars>>
    \/ SquashCall /\ UNCHANGED <<iwVars, cacheVars>>
    \/ CheckTemplatelinksCall /\ UNCHANGED <<iwVars, cacheVars>>
    \/ CheckCategorylinksCall /\ UNCHANGED <<iwVars, cacheVars>>
    \/ CheckExternalLinksCall /\ UNCHANGED <<iwVars, cacheVars>>
    \/ InitPagesCall /\ UNCHANGED <<iwVars, cacheVars>>

SpecCheck == CheckInit /\ [][CheckNext]_vars

\* a run of grab.py: the checks called one after the other
MainInit ==
    /\ autocommit = [i \in Insts |-> TRUE]
    /\ CacheStart
    /\ IwStart
    /\ chkIn = [dataset |-> "none", db |-> <<>>, api |-> <<>>]
    /\ chkOut = None
    /\ mainArgs \in [sync : BOOLEAN, parser_cache : BOOLEAN]
    /\ MainStart

MainNext == \E met \in {"equal", "mismatch", "apierror"} : MainCheck(met) /\ UNCHANGED <<iwVars, cacheVars>>

SpecMain == MainInit /\ [][MainNext]_vars

\* C1: running gen_update(since) again on the same log, right after a run with
\* the same since, leaves the interwiki table as the first run left it.
C1_Idempotent == iwReplay => interwiki = iwBefore

\* a replayed run that yielded an upsert and a delete, after a first run that
\* changed the table
C1_Witness ==
    /\ iwReplay
    /\ iwErr = "none"
    /\ \E i \in 1..Len(iwOps) : iwOps[i].kind = "insert"
    /\ \E i \in 1..Len(iwOps) : iwOps[i].kind = "delete"
    /\ interwiki \notin IwTables

\* C16: after a run of gen_update that yielded one upsert for a prefix the
\* table already had, every column the log event did not carry (iw_api always,
\* iw_local and iw_trans when parameters 3 and 2 are missing) holds the value
\* the row had before the run.
C16_PartialUpsertMerges ==
    (iwErr = "none" /\ Len(iwOps) = 1 /\ iwOps[1].kind = "insert") =>
        LET e == iwOps[1].entry
        IN  \A old \in iwBefore :
                old.iw_prefix = e.iw_prefix =>
                    \E r \in interwiki :
                        /\ r.iw_prefix = old.iw_prefix
                        /\ e.iw_url = Absent => r.iw_url = old.iw_url
                        /\ e.iw_api = Absent => r.iw_api = old.iw_api
                        /\ e.iw_local = Absent => r.iw_local = old.iw_local
                        /\ e.iw_trans = Absent => r.iw_trans = old.iw_trans

\* A log event gen_update can interpret: an interwiki event with a known
\* action that carries the prefix.
Interpretable(le) ==
    /\ le.type = "interwiki"
    /\ le.action \in {"iw_add", "iw_edit", "iw_delete"}
    /\ le.params.p0 # Absent

\* C17: a run of gen_update over a log with events it cannot interpret raises
\* no KeyError, yields no operation without a prefix, and yields one operation
\* for each interpretable event of the window, those after an uninterpretable
\* one included.
C17_UninterpretableSkipped ==
    iwRun.valid =>
        /\ iwErr = "none"
        /\ \A i \in 1..Len(iwOps) :
                iwOps[i].kind = "insert" => iwOps[i].entry.iw_prefix # Absent
        /\ Len(iwOps) = Cardinality({i \in 1..Len(logging) :
                            logging[i].timestamp >= iwRun.since /\ Interpretable(logging[i])})

\* The iw_delete events of the window of the last run that record prefix p,
\* and the delete operations the run yielded for p.
DeleteEvents(p) ==
    {i \in 1..Len(logging) :
        /\ logging[i].timestamp >= iwRun.since
        /\ logging[i].type = "interwiki"
        /\ logging[i].action = "iw_delete"
        /\ logging[i].params.p0 = p}

DeleteOps(p) ==
    {i \in 1..Len(iwOps) : iwOps[i].kind = "delete" /\ iwOps[i].entry.b_iw_prefix = p}

DeletesYielded ==
    /\ \A p \in Prefixes \cup {Absent} : Cardinality(DeleteOps(p)) = Cardinality(DeleteEvents(p))
    /\ (Len(iwOps) = 1 /\ iwOps[1].kind = "delete") =>
            /\ iwErr = "none"
            /\ interwiki = {r \in iwBefore : r.iw_prefix # iwOps[1].entry.b_iw_prefix}

\* C18: a run of gen_update yields one delete operation per iw_delete event
\* of its window, keyed by the prefix of the event, whatever the table holds;
\* a run that yielded one delete leaves the table without the row of that
\* prefix and with every other row.
C18_DeleteKeyedByPrefix == iwRun.valid => DeletesYielded

\* The same for a log whose events of the window all carry their prefix.
C18_DeleteWhenInterpretable ==
    (/\ iwRun.valid
     /\ \A i \in 1..Len(logging) :
            (logging[i].timestamp >= iwRun.since /\ logging[i].type = "interwiki")
                => logging[i].params.p0 # Absent)
        => DeletesYielded

\* C19: a run of gen_insert yields as many operations as the interwikimap has
\* entries, the i-th an upsert carrying the prefix, url, api and flags of the
\* i-th entry, and no delete; no statement is rejected; run on an empty table
\* it leaves exactly one row per prefix of the interwikimap.
C19_InsertCoversMap ==
    iwRuns > 0 =>
        /\ Len(iwOps) = Len(interwikimap)
        /\ \A i \in 1..Len(iwOps) :
                /\ iwOps[i].kind = "insert"
                /\ iwOps[i].entry.iw_prefix = interwikimap[i].prefix
                /\ iwOps[i].entry.iw_url = interwikimap[i].url
                /\ iwOps[i].entry.iw_api =
                        (IF interwikimap[i].api = Absent THEN Null ELSE interwikimap[i].api)
                /\ iwOps[i].entry.iw_local = (IF interwikimap[i].local THEN "TRUE" ELSE "FALSE")
                /\ iwOps[i].entry.iw_trans = (IF interwikimap[i].trans THEN "TRUE" ELSE "FALSE")
        /\ iwErr = "none"
        /\ iwBefore = {} =>
                /\ {r.iw_prefix : r \in interwiki} =
                        {interwikimap[i].prefix : i \in 1..Len(interwikimap)}
                /\ Cardinality(interwiki) = Len(interwikimap)

\* gen_insert run once on an empty table for a wiki with two interwiki prefixes
C19_Witness ==
    /\ iwRuns = 1
    /\ iwBefore = {}
    /\ Len(interwikimap) = 2
    /\ Len(iwOps) = 2
    /\ Cardinality(interwiki) = 2

\* The events of the window of the last run that gen_update acts on, in log
\* order: interwiki events not older than since with a known action.
InWindow(le) ==
    /\ le.timestamp >= iwRun.since
    /\ le.type = "interwiki"
    /\ le.action \in {"iw_add", "iw_edit", "iw_delete"}

WindowEvents == SelectSeq(logging, InWindow)

\* Operation op is the one operation of event le.
OpOfEvent(op, le) ==
    IF le.action = "iw_delete"
    THEN op.kind = "delete" /\ op.entry.b_iw_prefix = le.params.p0
    ELSE op.kind = "insert" /\ op.entry.iw_prefix = le.params.p0

OneOpPerEvent ==
    /\ Len(iwOps) = Len(WindowEvents)
    /\ \A k \in 1..Len(iwOps) : OpOfEvent(iwOps[k], WindowEvents[k])
    /\ (iwBefore = {} /\ Len(WindowEvents) = 1 /\ WindowEvents[1].action = "iw_add") =>
            /\ iwErr = "none"
            /\ Cardinality(interwiki) = 1
            /\ \A r \in interwiki : r.iw_prefix = WindowEvents[1].params.p0

\* C20: a run of gen_update(since) yields, in log order, one operation for
\* each interwiki event not older than since whose action is iw_add, iw_edit
\* or iw_delete, and nothing else; when the window is a single iw_add and the
\* table was empty, the run leaves exactly the row of the event's prefix.
C20_OneOpPerEventSince == iwRun.valid => OneOpPerEvent

\* The same for a log whose events of the window all carry their prefix.
C20_OneOpWhenInterpretable ==
    (/\ iwRun.valid
     /\ \A i \in 1..Len(logging) :
            (logging[i].timestamp >= iwRun.since /\ logging[i].type = "interwiki")
                => logging[i].params.p0 # Absent)
        => OneOpPerEvent

\* C21: the mirror agreed with the wiki at the checkpoint and every change
\* of the wiki since is in the log; after the first run of gen_update from the
\* checkpoint the interwiki table has the rows of the wiki's interwikimap,
\* prefix by prefix and field by field.
C21_UpdateReachesSource ==
    (iwRun.valid /\ iwRuns = 1) =>
        /\ iwErr = "none"
        /\ interwiki = MirrorOf(interwikimap)

\* The same for the prefixes and every field but iw_api.
C21_UpdateReachesSourceButApi ==
    (iwRun.valid /\ iwRuns = 1) =>
        /\ iwErr = "none"
        /\ {[r EXCEPT !.iw_api = Null] : r \in interwiki} =
                {[r EXCEPT !.iw_api = Null] : r \in MirrorOf(interwikimap)}

\* ------------------------------------------------------------------------
\* ws.cache: properties
\* ------------------------------------------------------------------------
\* This step is the operation op of the program on instance inst.
ProgramStep(ops, inst) ==
    /\ lastOp'.op \in ops
    /\ lastOp'.inst = inst
    /\ wikiVars' = wikiVars
    /\ procVars' # procVars

\* The last operation on inst wrote both files and nothing raised.
Dumped(inst) ==
    /\ lastOp.inst = inst
    /\ lastOp.op \in {"access", "load", "dump"}
    /\ lastErr = "none"
    /\ InCalls(calls, "dump")

\* C2: a load() that follows a dump() of the same cache, the files untouched
\* in between, deserializes the payload, raises nothing (no CacheDbError in
\* particular) and leaves in memory the data that were there before the dump.
C2_RoundTrip ==
    [][\A i \in Insts :
        (Dumped(i) /\ ProgramStep({"load"}, i))
            => /\ lastErr' = "none"
               /\ InCalls(calls', "deserialize")
               /\ data'[i] = data[i]]_vars

\* a payload with a page (and its datetime) under a namespace key was loaded
C2_Witness ==
    /\ lastOp = Op("load", Text, "")
    /\ lastErr = "none"
    /\ InCalls(calls, "deserialize")
    /\ Get(data[Text])[StrKey(0)] # None
    /\ Get(data[Text])[StrKey(1)] # None
    /\ Len(Get(Get(data[Text])[StrKey(0)])) > 0

\* The payload of inst can be read and its checksum is not the one recorded
\* in the metadata file.
ChecksumDiffers(inst) ==
    /\ dbfile[inst] # None
    /\ metafile[inst] # None
    /\ Get(dbfile[inst]).gz
    /\ Get(metafile[inst]).ok
    /\ Get(metafile[inst]).m.md5 # Some(Md5sum(Get(dbfile[inst]).toks))

\* C3: when the payload was changed after the dump so that its recomputed
\* checksum differs from the recorded one, the next load() raises CacheDbError
\* and the payload is not deserialized: data stay as they were.
C3_CorruptionDetected ==
    [][\A i \in Insts :
        (/\ ChecksumDiffers(i)
         /\ ProgramStep({"load", "access"}, i)
         /\ InCalls(calls', "load"))
            => /\ lastErr' = "CacheDbError"
               /\ ~InCalls(calls', "deserialize")
               /\ data' = data]_vars

\* a load of a payload changed behind the program's back was refused
C3_Witness ==
    /\ tampered[Users]
    /\ ChecksumDiffers(Users)
    /\ lastOp = Op("load", Users, "")
    /\ lastErr = "CacheDbError"

\* C4: a dump() that fails once it started writing leaves the payload and
\* the metadata file persisted before as they were.
C4_FailedDumpKeepsFiles ==
    [][\A i \in Insts :
        (/\ dbfile[i] # None
         /\ metafile[i] # None
         /\ ProgramStep({"access", "load", "dump"}, i)
         /\ InCalls(calls', "dump")
         /\ lastErr' = "OSError")
            => (dbfile'[i] = dbfile[i] /\ metafile'[i] = metafile[i])]_vars

\* C5: whenever both files of a cache exist (and nobody but the program
\* wrote them), the checksum in the metadata file is the checksum of the
\* payload.
C5_ChecksumMatchesPayload ==
    \A i \in Insts :
        (dbfile[i] # None /\ metafile[i] # None /\ ~tampered[i])
            => Get(metafile[i]).m.md5 = Some(Md5sum(Get(dbfile[i]).toks))

\* C6: load() deserializes a payload only after its recomputed checksum was
\* compared with the recorded one and found equal.
C6_ComparedBeforeLoaded ==
    InCalls(calls, "deserialize") => InCalls(calls, "compare")

\* the load, update and read calls among the calls of an accessor, in order
RECURSIVE AccessTrace(_, _)
AccessTrace(cs, i) ==
    IF i > Len(cs) THEN <<>>
    ELSE (IF cs[i] \in {"load", "update", "read"} THEN <<cs[i]>> ELSE <<>>)
         \o AccessTrace(cs, i + 1)

\* C7: an accessor calls load() exactly when no data is in memory, then
\* update() once, then reads the data; a call that raises ends the accessor,
\* and an accessor that returns has read.
C7_LoadThenUpdateThenRead ==
    [][\A i \in Insts :
        ProgramStep({"access"}, i) =>
            LET tr == AccessTrace(calls', 1)
            IN  /\ data[i] = None =>
                        tr \in {<<"load">>, <<"load", "update">>, <<"load", "update", "read">>}
                /\ data[i] # None => tr \in {<<"update">>, <<"update", "read">>}
                /\ lastErr' = "none" => tr[Len(tr)] = "read"]_vars

\* an accessor found data in memory: no load, update, read
C7_Witness ==
    /\ lastOp.op = "access"
    /\ lastErr = "none"
    /\ AccessTrace(calls, 1) = <<"update", "read">>

\* C8: reading a metadata field as an attribute calls nothing and leaves
\* meta, data and the files as they are; it yields the field of meta, None
\* for a field meta does not have.
C8_AttrReadIsPure ==
    [][\A i \in Insts :
        (lastOp'.op = "attr" /\ lastOp'.inst = i /\ wikiVars' = wikiVars) =>
            /\ calls' = <<>>
            /\ UNCHANGED <<meta, data, dbfile, metafile, now>>
            /\ lastOp'.name = "timestamp" => attrResult' = meta.timestamp
            /\ lastOp'.name = "nosuchfield" => attrResult' = None]_vars

\* a field was read while the data were on disk only: nothing was loaded
C8_Witness ==
    /\ lastOp.op = "attr"
    /\ data[lastOp.inst] = None
    /\ dbfile[lastOp.inst] # None
    /\ calls = <<>>

\* C9: an operation on one cache leaves the metadata of the other cache, once
\* that cache holds data, as they are, and the metadata file of LatestRevisionsText never holds the
\* counters of AllUsersProps.
C9_MetaOwnedByInstance ==
    [][\A i \in Insts :
        (data[i] # None /\ \E j \in Insts \ {i} : ProgramStep({"access", "load", "dump"}, j)) =>
            /\ SelfMeta(Proc, i)' = SelfMeta(Proc, i)
            /\ metafile'[Text] # None =>
                    Get(metafile'[Text]).m.activeuserscount = None]_vars

\* C10: an update() that returns normally leaves meta["timestamp"] later than
\* it found it.
C10_UpdateAdvances ==
    (lastOp.op = "access" /\ lastErr = "none" /\ tsAtUpdate # None) =>
        /\ meta.timestamp # None
        /\ Get(tsAtUpdate) # None => Get(Get(tsAtUpdate)) < Get(meta.timestamp)

\* C11: a load, init or update that returns normally never leaves the
\* checkpoint of a cache earlier than it was.
C11_TimestampNeverDecreases ==
    [][\A i \in Insts :
        (/\ \E j \in Insts : ProgramStep({"access", "load"}, j)
         /\ lastErr' = "none"
         /\ data[i] # None
         /\ SelfMeta(Proc, i).timestamp # None)
            => /\ SelfMeta(Proc, i)'.timestamp # None
               /\ Get(SelfMeta(Proc, i).timestamp) <= Get(SelfMeta(Proc, i)'.timestamp)]_vars

\* C12: when a query of init or update fails, nothing is called after the
\* failing call (no dump), the checkpoint is the one the failing call found,
\* and the files are those of the last dump that succeeded: untouched, or,
\* when the init of this access had dumped before update failed, the files of
\* that dump.
C12_FailedFetchPersistsNothing ==
    [][\A i \in Insts :
        (ProgramStep({"access", "load"}, i) /\ lastErr' = "APIError") =>
            /\ calls'[Len(calls')] \in {"init", "update"}
            /\ IF tsAtUpdate' # None
               THEN meta'.timestamp = Get(tsAtUpdate')
               ELSE meta'.timestamp = meta.timestamp
            /\ IF InCalls(calls', "dump")
               THEN /\ Get(dbfile'[i]).gz
                    /\ Get(metafile'[i]).ok
                    /\ Get(metafile'[i]).m.md5 = Some(Md5sum(Get(dbfile'[i]).toks))
                    /\ Get(metafile'[i]).m.timestamp = Some(Strftime(Get(Get(tsAtUpdate'))))
               ELSE dbfile' = dbfile /\ metafile' = metafile]_vars

\* the init of an access dumped and its update failed at a query
C12_Witness ==
    /\ lastOp = Op("access", Users, "")
    /\ lastErr = "APIError"
    /\ calls = <<"load", "init", "dump", "update">>
    /\ dbfile[Users] # None
    /\ metafile[Users] # None

\* the recent changes kept by the wiki do not reach back to the first day of
\* the window of an update entered now
ShortAtUpdate == oldestRc > (now + 1) - ActiveDays * DayLen

\* C13: an update of AllUsersProps that finds the recent changes too short
\* falls back to init and, unless a query or a write fails, returns normally
\* with the full user list and a checkpoint of now; ShortRecentChangesError
\* leaves neither update nor init.
C13_ShortFallsBackToInit ==
    [][/\ ProgramStep({"access", "load"}, Users) => lastErr' # "ShortRecentChangesError"
       /\ (ProgramStep({"access"}, Users) /\ data[Users] # None /\ ShortAtUpdate) =>
            /\ lastErr' \in {"none", "APIError", "OSError"}
            /\ lastErr' = "none" =>
                    /\ calls' = <<"update", "init", "dump", "read">>
                    /\ meta'.timestamp = Some(now')
                    /\ LET full == AllUsersFrom(1)
                           got == Get(data'[Users])
                       IN  /\ Len(got) = Len(full)
                           /\ \A j \in 1..Len(full) :
                                got[j].name = full[j].name /\ got[j].ver = full[j].ver]_vars

\* the fallback ran and returned
C13_Witness ==
    /\ lastOp = Op("access", Users, "")
    /\ lastErr = "none"
    /\ calls = <<"update", "init", "dump", "read">>
    /\ meta.timestamp = Some(now)

C15_AutocommitDecidesDump ==
    [][\A i \in Insts :
        ProgramStep({"access", "load"}, i) =>
            /\ (autocommit[i] /\ lastErr' = "none" /\ data'[i] # data[i]
                    /\ (InCalls(calls', "init") \/ InCalls(calls', "update"))) =>
                    /\ InCalls(calls', "dump")
                    /\ dbfile'[i] = Some([toks |-> JsonDumps(i, Get(data'[i])), gz |-> TRUE])
                    /\ metafile'[i] # None
                    /\ Get(metafile'[i]).m.md5 = Some(Md5sum(JsonDumps(i, Get(data'[i]))))
            /\ ~autocommit[i] =>
                    /\ dbfile' = dbfile
                    /\ metafile' = metafile
                    /\ ~InCalls(calls', "dump")]_vars

\* an update of a cache with autocommit True changed the data and dumped them
C15_Witness ==
    /\ autocommit[Users]
    /\ lastOp = Op("access", Users, "")
    /\ lastErr = "none"
    /\ calls = <<"update", "dump", "read">>

\* an init and an update of a cache with autocommit False, no file written
C15_WitnessManual ==
    /\ ~autocommit[Users]
    /\ lastOp = Op("access", Users, "")
    /\ lastErr = "none"
    /\ InCalls(calls, "update")
    /\ data[Users] # None
    /\ dbfile[Users] = None

\* ------------------------------------------------------------------------
\* grab.py: properties
\* ------------------------------------------------------------------------
\* The entries of position i as the check of the dataset compares them.
DbCompared(i) ==
    IF chkIn.dataset = "recentchanges" THEN RcDbEntry(chkIn.db[i]) ELSE chkIn.db[i]
ApiCompared(i) ==
    IF chkIn.dataset = "recentchanges" THEN RcApiEntry(chkIn.api[i]) ELSE chkIn.api[i]

\* the positions of the overlapping prefix whose pair mismatches, in order
RECURSIVE MismatchingFrom(_)
MismatchingFrom(i) ==
    IF i > Min(Len(chkIn.db), Len(chkIn.api)) THEN <<>>
    ELSE (IF DbCompared(i) # ApiCompared(i) THEN <<i>> ELSE <<>>) \o MismatchingFrom(i + 1)

\* C22: a check run on two lists of the same length has compared every pair
\* and printed the diff of every mismatching pair, in every dataset check.
C22_EveryMismatchReported ==
    (chkOut # None /\ chkIn.dataset \in {"logging", "recentchanges"}
        /\ Len(chkIn.db) = Len(chkIn.api)) =>
        /\ Get(chkOut).compared = Positions(Len(chkIn.db))
        /\ Get(chkOut).reported = MismatchingFrom(1)

\* The same for the checks that go through _check_lists.
C22_CheckListsReportsAll ==
    (chkOut # None /\ chkIn.dataset = "logging" /\ Len(chkIn.db) = Len(chkIn.api)) =>
        /\ Get(chkOut).compared = Positions(Len(chkIn.db))
        /\ Get(chkOut).reported = MismatchingFrom(1)

\* C23: _check_lists run on two lists of the same length ends with an
\* AssertionError at its caller exactly when some pair mismatched, and the
\* exception carries the number of mismatching pairs.
C23_AggregateFailureRaised ==
    (chkOut # None /\ chkIn.dataset = "logging" /\ Len(chkIn.db) = Len(chkIn.api)) =>
        /\ (Get(chkOut).raised = "AssertionError") <=> (MismatchingFrom(1) # <<>>)
        /\ MismatchingFrom(1) # <<>> =>
                Get(chkOut).traceback.args = <<Len(MismatchingFrom(1))>>

\* C24: _check_lists run on two lists of different lengths prints the length
\* mismatch, compares every pair of the overlapping prefix and prints the diff
\* of each of them that mismatches.
C24_PrefixComparedOnLengthMismatch ==
    (chkOut # None /\ chkIn.dataset = "logging" /\ Len(chkIn.db) # Len(chkIn.api)) =>
        /\ Get(chkOut).traceback = Traceback("length", <<Len(chkIn.db), Len(chkIn.api)>>)
        /\ Get(chkOut).compared = Positions(Min(Len(chkIn.db), Len(chkIn.api)))
        /\ Get(chkOut).reported = MismatchingFrom(1)

\* The list has no two entries with the same pageid.
DistinctPageids(l) == \A i, j \in 1..Len(l) : l[i].pageid = l[j].pageid => i = j

Records(l) == {l[i] : i \in 1..Len(l)}

\* C25: _check_lists_of_unordered_pages run on two lists that hold the same
\* records, each with its own pageid, in any two orders: every pair compared
\* has one pageid, no diff is printed and no traceback.
C25_OrderIndependent ==
    (/\ chkOut # None
     /\ chkIn.dataset = "allpages"
     /\ DistinctPageids(chkIn.db)
     /\ DistinctPageids(chkIn.api)
     /\ Records(chkIn.db) = Records(chkIn.api)) =>
        LET out == Get(chkOut)
        IN  /\ out.compared = Positions(Len(chkIn.db))
            /\ \A i \in 1..Len(out.db) : out.db[i].pageid = out.api[i].pageid
            /\ out.reported = <<>>
            /\ out.traceback = NoTraceback
            /\ out.raised = "none"

\* the mirror's list is the reverse of the list of the API
C25_Witness ==
    /\ chkOut # None
    /\ chkIn.dataset = "allpages"
    /\ Len(chkIn.db) = 2
    /\ chkIn.db[1].pageid = 2
    /\ chkIn.db[2].pageid = 1
    /\ chkIn.api = <<chkIn.db[2], chkIn.db[1]>>
    /\ Get(chkOut).reported = <<>>

\* Position i of the two lists of check_protected_titles has a timestamp on
\* both sides.
BothTimestamps(i) ==
    /\ chkIn.db[i].timestamp # NoTimestamp
    /\ chkIn.api[i].timestamp # NoTimestamp

InReported(i) == \E k \in 1..Len(Get(chkOut).reported) : Get(chkOut).reported[k] = i

\* C26: in check_protected_titles a pair with a timestamp on both sides is
\* found equal exactly when the two timestamps are at most one second apart,
\* and then the mirror's timestamp was set to the one of the API: 1000 ms
\* apart is equal, 1001 ms apart is a mismatch.
C26_ToleranceOneSecond ==
    (chkOut # None /\ chkIn.dataset = "protectedtitles" /\ Len(chkIn.db) = Len(chkIn.api)) =>
        \A i \in 1..Len(chkIn.db) :
            BothTimestamps(i) =>
                LET d == chkIn.db[i].timestamp - chkIn.api[i].timestamp
                IN  /\ ~InReported(i) <=> (d <= 1000 /\ 0 - d <= 1000)
                    /\ ~InReported(i) => Get(chkOut).db[i].timestamp = chkIn.api[i].timestamp
                    /\ InReported(i) => Get(chkOut).db[i].timestamp = chkIn.db[i].timestamp
                    /\ d \in {1000, 0 - 1000} => ~InReported(i)
                    /\ d \in {1001, 0 - 1001} => InReported(i)

\* one pair exactly a second apart, found equal, and one 1.001 s apart, reported
C26_Witness ==
    /\ chkOut # None
    /\ chkIn.dataset = "protectedtitles"
    /\ Len(chkIn.db) = 2
    /\ Len(chkIn.api) = 2
    /\ chkIn.db[1].timestamp = 0
    /\ chkIn.api[1].timestamp = 1000
    /\ chkIn.db[2].timestamp = 2001
    /\ chkIn.api[2].timestamp = 1000
    /\ Get(chkOut).reported = <<2>>
    /\ Get(chkOut).db[1].timestamp = 1000

\* Some check called so far met a mismatch or a failing query.
SomeCheckFailed == \E k \in 1..Len(mainDone) : mainDone[k].met # "equal"

\* C27: a run of grab.py in which a check met a mismatch, or a failure, has
\* not ended before the last check of the run was called.
C27_FailureDoesNotBlockOthers ==
    (SomeCheckFailed /\ mainErr # "none") => Len(mainDone) = Len(MainChecks(mainArgs))

\* The same for the mismatches that the checks find through _check_lists.
C27_ListMismatchDoesNotBlock ==
    (\A k \in 1..Len(mainDone) :
        /\ mainDone[k].met # "apierror"
        /\ mainDone[k].check = "check_specific_titles" => mainDone[k].met = "equal")
        => mainErr = "none"

\* The pieces of list with identity id (field key), and the merge of those
\* pieces as a union of fields: field f of the merged record is there when a
\* piece has it, with the value of the last piece that has it.
Pieces(list, key, id) == {i \in 1..Len(list) : list[i][key] = id}

FieldUnion(list, key, id, rec) ==
    \A f \in DOMAIN rec :
        LET having == {i \in Pieces(list, key, id) : list[i][f] # NoField}
        IN  IF having = {} THEN rec[f] = NoField
            ELSE rec[f] = list[CHOOSE i \in having : \A j \in having : j <= i][f]

\* the identities of list in the order of their first occurrence
RECURSIVE FirstIds(_, _, _)
FirstIds(list, key, i) ==
    IF i > Len(list) THEN <<>>
    ELSE (IF \E j \in 1..(i - 1) : list[j][key] = list[i][key] THEN <<>> ELSE <<list[i][key]>>)
         \o FirstIds(list, key, i + 1)

\* C29: _squash_list_of_dicts gives one record per pageid, the pageids in the
\* order of their first occurrence, each record the union of the fields of the
\* pieces with its pageid; the loop of LatestRevisionsText.init gives one page
\* per title, each the union of the fields of the pieces with its title.
C29_MergeIsFieldUnion ==
    /\ (chkOut # None /\ chkIn.dataset = "squash") =>
            LET out == Get(chkOut).api
            IN  /\ [k \in 1..Len(out) |-> out[k].pageid] = FirstIds(chkIn.api, "pageid", 1)
                /\ \A k \in 1..Len(out) : FieldUnion(chkIn.api, "pageid", out[k].pageid, out[k])
    /\ (chkOut # None /\ chkIn.dataset = "initpages") =>
            LET out == Get(chkOut).db
            IN  /\ {out[k].title : k \in 1..Len(out)} =
                        {chkIn.api[i].title : i \in 1..Len(chkIn.api)}
                /\ \A k, l \in 1..Len(out) : k < l => out[k].title < out[l].title
                /\ \A k \in 1..Len(out) : FieldUnion(chkIn.api, "title", out[k].title, out[k])

\* {pageid: 1, a: 1} and {pageid: 1, b: 2} squashed into {pageid: 1, a: 1, b: 2}
C29_Witness ==
    /\ chkOut # None
    /\ chkIn.dataset = "squash"
    /\ chkIn.api = <<[pageid |-> 1, a |-> 1, b |-> NoField], [pageid |-> 1, a |-> NoField, b |-> 2]>>
    /\ Get(chkOut).api = <<[pageid |-> 1, a |-> 1, b |-> 2]>>

\* a page yielded in two pieces, merged by the loop of init
C29_WitnessInit ==
    /\ chkOut # None
    /\ chkIn.dataset = "initpages"
    /\ chkIn.api = <<[title |-> 1, pageid |-> 1, touched |-> NoField],
                     [title |-> 1, pageid |-> NoField, touched |-> 2]>>
    /\ Get(chkOut).db = <<[title |-> 1, pageid |-> 1, touched |-> 2]>>

\* A list of pages with every normalization the check of its dataset applies
\* applied to each page.
NormalizedList(dataset, list) ==
    [i \in 1..Len(list) |->
        CASE dataset = "templatelinks" ->
                [list[i] EXCEPT !.templates = SortedTemplates(@)]
          [] dataset = "categorylinks" ->
                [list[i] EXCEPT !.categories = WithoutAutomatic(@)]
          [] dataset = "extlinks" ->
                [list[i] EXCEPT !.extlinks = SortedDecoded(WithoutSelfLinks(@))]]

\* The same list with the normalizations of the other side left out.
NormalizedApiList(dataset, list) ==
    [i \in 1..Len(list) |->
        CASE dataset = "templatelinks" ->
                [list[i] EXCEPT !.templates = SortedTemplates(@)]
          [] dataset = "categorylinks" ->
                [list[i] EXCEPT !.categories = WithoutAutomatic(@)]
          [] dataset = "extlinks" ->
                [list[i] EXCEPT !.extlinks = SortedDecoded(@)]]

NormalizedDbList(dataset, list) ==
    [i \in 1..Len(list) |->
        IF dataset = "extlinks"
        THEN [list[i] EXCEPT !.extlinks = WithoutSelfLinks(@)]
        ELSE list[i]]

LinkDatasets == {"templatelinks", "categorylinks", "extlinks"}

C28_WitnessExtlinks ==
    /\ chkOut # None
    /\ chkIn.dataset = "extlinks"
    /\ \E i \in 1..Len(chkIn.api[1].extlinks) : chkIn.api[1].extlinks[i].self
    /\ \E i \in 1..Len(Get(chkOut).api[1].extlinks) : Get(chkOut).api[1].extlinks[i].self
    /\ \E i \in 1..Len(chkIn.db[1].extlinks) : chkIn.db[1].extlinks[i].self
    /\ \A i \in 1..Len(Get(chkOut).db[1].extlinks) : ~Get(chkOut).db[1].extlinks[i].self

(***************************************************************************)
(* ws.cache: the requests of an update                                     *)
(***************************************************************************)
RECURSIVE IdsOf(_, _)
IdsOf(reqs, i) == IF i > Len(reqs) THEN <<>> ELSE reqs[i].ids \o IdsOf(reqs, i + 1)

C30_WitnessPages ==
    /\ lastOp.op = "access"
    /\ lastOp.inst = Text
    /\ lastErr = "none"
    /\ requests # <<>>

(***************************************************************************)
(* ws.cache: a cache whose checksum differs                                *)
(***************************************************************************)
\* C38: an access or load that ends with CacheDbError has called neither init
\* nor update, has deserialized nothing, and leaves the data in memory and
\* both files as they were; and as long as no data is in memory and the
\* checksum of the payload differs from the recorded one, every access of the
\* cache ends with CacheDbError and the checksum still differs after whatever
\* the program does.
C38_IntegrityErrorIsFatal ==
    [][\A i \in Insts :
        /\ (ProgramStep({"access", "load"}, i) /\ lastErr' = "CacheDbError") =>
                /\ ~InCalls(calls', "init")
                /\ ~InCalls(calls', "update")
                /\ ~InCalls(calls', "deserialize")
                /\ ~InCalls(calls', "dump")
                /\ data' = data
                /\ dbfile' = dbfile
                /\ metafile' = metafile
        /\ (ChecksumDiffers(i) /\ data[i] = None /\ ProgramStep({"access"}, i)) =>
                lastErr' = "CacheDbError"
        /\ (ChecksumDiffers(i) /\ data[i] = None /\ wikiVars' = wikiVars
                /\ lastOp'.op \in {"access", "load", "dump", "attr"}) =>
                (ChecksumDiffers(i)' /\ data'[i] = None)]_vars

\* an access found no data in memory and a payload changed behind the
\* program's back: it was refused, nothing is in memory, the payload is still
\* the corrupt one
C38_Witness ==
    /\ tampered[Users]
    /\ ChecksumDiffers(Users)
    /\ lastOp.op = "access"
    /\ lastOp.inst = Users
    /\ lastErr = "CacheDbError"
    /\ data[Users] = None
    /\ InCalls(calls, "load")

(***************************************************************************)
(* ws.cache: the namespaces of LatestRevisionsText                         *)
(***************************************************************************)
\* the keys of the dict whose lists an access changed
ChangedKeys ==
    {k \in DictKeys :
        (IF data[Text] = None THEN None ELSE Get(data[Text])[k])
            # (IF data'[Text] = None THEN None ELSE Get(data'[Text])[k])}

\* C39: an access of LatestRevisionsText whose load and update returned reads
\* the entry of its key and finds it (no KeyError: the entry was initialized or
\* updated just before), and the access changes the list of no namespace but
\* the one of its key, which is a str.
C39_AccessReadsEntryOfKey ==
    [][ProgramStep({"access"}, Text) =>
        /\ InCalls(calls', "read") => lastErr' = "none"
        /\ Cardinality(ChangedKeys) <= 1
        /\ \A k \in ChangedKeys : k.kind = "str"]_vars

\* What holds of an access with any key: the lists of the other namespaces
\* stay, and only str keys are stored.
C39_OtherNamespacesKept ==
    [][ProgramStep({"access"}, Text) =>
        /\ Cardinality(ChangedKeys) <= 1
        /\ \A k \in ChangedKeys : k.kind = "str"]_vars

(***************************************************************************)
(* ws.cache: what an update leaves in the cache                            *)
(***************************************************************************)
\* The step is the access a of LatestRevisionsText: it leaves what the
\* accessor, run on the state before, leaves.
IsTextAccess(a) ==
    LET S == Accessor(Proc, Text, a.acc, a.key, "none", "none")
    IN  /\ ProgramStep({"access"}, Text)
        /\ now' = S.now
        /\ meta' = S.meta
        /\ data' = S.data
        /\ dbfile' = S.db
        /\ metafile' = S.mf
        /\ calls' = S.calls
        /\ lastErr' = S.err

\* update() was called and returned: the access ended well, or with the
\* KeyError of the read that follows the update
UpdateReturned == InCalls(calls', "update") /\ lastErr' \in {"none", "KeyError"}

\* C35: after update(ns) returned, the cached list of the namespace has, for
\* every page the wiki listed for the namespace, an entry of that title with a
\* touched value not older than the one listed.
C35_ListedPagesCached ==
    [][\A a \in Accesses :
        (a.inst = Text /\ IsTextAccess(a) /\ UpdateReturned) =>
            LET ns == NsKey(a.key)
                listed == AllPagesFrom(ns.v, 1)
                cached == Get(Get(data'[Text])[ns])
            IN  \A i \in 1..Len(listed) :
                    \E j \in 1..Len(cached) :
                        /\ cached[j].title = listed[i].title
                        /\ ~(cached[j].touched < listed[i].touched)]_vars

\* an update fetched a page that was cached and was touched since
C35_Witness ==
    /\ lastOp = Op("access", Text, "")
    /\ lastErr = "none"
    /\ InCalls(calls, "update")
    /\ ~InCalls(calls, "init")
    /\ requests # <<>>
    /\ \E k \in DictKeys :
            /\ Get(data[Text])[k] # None
            /\ \E j \in 1..Len(Get(Get(data[Text])[k])) :
                    /\ Get(Get(data[Text])[k])[j].touched > 1
                    /\ Get(Get(data[Text])[k])[j].touched = wikiPages[k.v][Get(Get(data[Text])[k])[j].title]

\* the user names, and per namespace the titles, a cache holds in memory
CachedNames(d) == {d[j].name : j \in 1..Len(d)}
CachedTitles(d, k) == IF d[k] = None THEN {} ELSE {Get(d[k])[j].title : j \in 1..Len(Get(d[k]))}

\* C36: an access of a cache that holds data, whose update did not go to
\* init, leaves every user name (AllUsersProps) and, per namespace, every
\* title (LatestRevisionsText) cached: also those of users renamed and pages
\* deleted on the wiki.
C36_UpdateKeepsRecords ==
    [][\A i \in Insts :
        (/\ ProgramStep({"access"}, i)
         /\ data[i] # None
         /\ InCalls(calls', "update")
         /\ ~InCalls(calls', "init")) =>
            /\ data'[i] # None
            /\ i = Users => CachedNames(Get(data[i])) \subseteq CachedNames(Get(data'[i]))
            /\ i = Text => \A k \in DictKeys :
                    CachedTitles(Get(data[i]), k) \subseteq CachedTitles(Get(data'[i]), k)]_vars

\* an update fetched the users to refresh after a cached user was renamed: the
\* user is still cached
C36_Witness ==
    /\ lastOp = Op("access", Users, "")
    /\ lastErr = "none"
    /\ InCalls(calls, "update")
    /\ ~InCalls(calls, "init")
    /\ requests # <<>>
    /\ \E u \in CachedNames(Get(data[Users])) : wikiUsers[u] = 0

\* an update ran after a cached page was deleted: the page is still cached
C36_WitnessPage ==
    /\ lastOp = Op("access", Text, "")
    /\ lastErr = "none"
    /\ InCalls(calls, "update")
    /\ ~InCalls(calls, "init")
    /\ \E k \in DictKeys : \E title \in CachedTitles(Get(data[Text]), k) : wikiPages[k.v][title] = 0

\* the edits of a user in the active window of an update made at the time now
EditsInWindow(name, today) ==
    Count(RcBetween(today - ActiveDays * DayLen, today, Len(wikiRc)), name)

\* C37: after an access of AllUsersProps whose update returned without going
\* to init, the recenteditcount of every cached user is the number of edits of
\* the user in the active window of that update.
C37_RecentEditCountsCurrent ==
    [][(/\ ProgramStep({"access"}, Users)
        /\ lastErr' = "none"
        /\ InCalls(calls', "update")
        /\ ~InCalls(calls', "init")) =>
            \A j \in 1..Len(Get(data'[Users])) :
                Get(data'[Users])[j].recenteditcount =
                    Some(EditsInWindow(Get(data'[Users])[j].name, now'))]_vars

\* The same of the updates that found a user to fetch.
C37_RecentEditCountsWhenFetched ==
    [][(/\ ProgramStep({"access"}, Users)
        /\ lastErr' = "none"
        /\ InCalls(calls', "update")
        /\ ~InCalls(calls', "init")
        /\ requests' # <<>>) =>
            \A j \in 1..Len(Get(data'[Users])) :
                Get(data'[Users])[j].recenteditcount =
                    Some(EditsInWindow(Get(data'[Users])[j].name, now'))]_vars

(***************************************************************************)
(* ws.cache: the log events an update of AllUsersProps reads               *)
(***************************************************************************)
\* The log query of every update to come starts at the checkpoint or later:
\* an event older than the checkpoint is returned by none of them.
Missed(log, m, i) == m.timestamp # None /\ log[i].ts < Get(m.timestamp)

\* The step read the event: its update queried the log from a start not later
\* than the event, or its init listed all users.
ReadInStep(i) ==
    /\ i <= Len(wikiLog)
    /\ \/ InCalls(calls', "init")
       \/ /\ InCalls(calls', "update")
          /\ tsAtUpdate' # None
          /\ (Get(tsAtUpdate') = None \/ wikiLog[i].ts >= Get(Get(tsAtUpdate')))

\* C34: no log event is lost: an event falls behind the checkpoint, where no
\* later log query returns it, only in a step whose log query (or init) read
\* it, or it was behind the checkpoint already.
C34_NoLogEventLost ==
    [][\A i \in 1..Len(wikiLog') :
        Missed(wikiLog', meta', i) =>
            \/ i <= Len(wikiLog) /\ Missed(wikiLog, meta, i)
            \/ ReadInStep(i)]_vars

\* The same of the steps in which the wiki does not change while the update
\* runs.
C34_NoLogEventLostWhenAtomic ==
    [][(wikiLog' = wikiLog \/ procVars' = procVars) =>
        \A i \in 1..Len(wikiLog') :
            Missed(wikiLog', meta', i) =>
                \/ i <= Len(wikiLog) /\ Missed(wikiLog, meta, i)
                \/ ReadInStep(i)]_vars

\* ======================================================================
\* update-package-templates.py: PkgFinder and PkgUpdater
\* ======================================================================

\* Most parameters a template of the inputs has.
MaxParams == 2

\* A package name is its lowercase spelling and whether the name as written
\* has an uppercase letter; a parameter value may also carry spaces around it.
PkgLetters == {"a"}

PkgNames == [lower : PkgLetters, caps : BOOLEAN, padded : {FALSE}]

ParamValues == [lower : PkgLetters, caps : BOOLEAN, padded : BOOLEAN]

\* str.lower() and str.strip() on a name.
Lower(n) == [n EXCEPT !.caps = FALSE]

Strip(n) == [n EXCEPT !.padded = FALSE]

TemplateNames == {"Pkg", "AUR", "Aur", "Grp"}

\* template.name.lower().strip() for the names above.
LowerName(name) ==
    CASE name = "Pkg" -> "pkg"
      [] name \in {"AUR", "Aur"} -> "aur"
      [] name = "Grp" -> "grp"
      [] OTHER -> name

\* The parameters of the inputs: the first positional one with every value,
\* a second positional one and a named one.
FillerValue == CHOOSE v \in ParamValues : ~v.caps /\ ~v.padded

TemplateParams ==
    [name : {"1"}, value : ParamValues] \cup [name : {"2", "foo"}, value : {FillerValue}]

ParamLists ==
    {ps \in UNION {[1..n -> TemplateParams] : n \in 0..MaxParams} :
        Cardinality({i \in DOMAIN ps : ps[i].name = "1"}) <= 1}

Templates == [name : TemplateNames, params : ParamLists]

\* The databases of the finder: the packages of the sync databases with
\* their replaces arrays, the groups, the AUR package list and the AUR3
\* archive list, from which aurpkgs_refresh takes the AUR packages away.
Packages == [name : PkgNames, replaces : SUBSET PkgNames]

Few(S) == {T \in SUBSET S : Cardinality(T) <= 1}

Finders ==
    {[pkgs |-> ps, grps |-> gs, aurpkgs |-> au, aur_archived_pkgs |-> ar \ au] :
        ps \in Few(Packages), gs \in Few(PkgNames),
        au \in SUBSET {Lower(n) : n \in PkgNames},
        ar \in SUBSET {Lower(n) : n \in PkgNames}}

\* find_pkg: the package of that name, exactly or compared in lowercase.
find_pkg(finder, pkgname, exact) ==
    LET found == IF exact
                 THEN {p \in finder.pkgs : p.name = pkgname}
                 ELSE {p \in finder.pkgs : Lower(p.name) = Lower(pkgname)}
    IN IF found = {} THEN None ELSE Some(CHOOSE p \in found : TRUE)

\* find_grp: the same for groups.
find_grp(finder, grpname, exact) ==
    LET found == IF exact
                 THEN {g \in finder.grps : g = grpname}
                 ELSE {g \in finder.grps : Lower(g) = Lower(grpname)}
    IN IF found = {} THEN None ELSE Some(CHOOSE g \in found : TRUE)

find_aur(finder, pkgname) == Lower(pkgname) \in finder.aurpkgs

find_aur3_archive(finder, pkgname) == Lower(pkgname) \in finder.aur_archived_pkgs

\* find_replaces returns a package only "if exact is True and pkgname in
\* pkg.replaces", and nothing otherwise.
find_replaces(finder, pkgname, exact) ==
    LET found == {p \in finder.pkgs : exact /\ pkgname \in p.replaces}
    IN IF found = {} THEN None ELSE Some(CHOOSE p \in found : TRUE)

\* template.get(1): the last parameter named "1", or ValueError (None).
GetParam(template) ==
    LET at == {i \in DOMAIN template.params : template.params[i].name = "1"}
    IN IF at = {} THEN None
       ELSE Some(CHOOSE i \in at : \A j \in at : j <= i)

\* template.add(1, value): the parameter "1" takes the value.
AddParam(template, value) ==
    [template EXCEPT !.params[Get(GetParam(template))].value = value]

\* The hints. The one about a replacing package names it.
NoPkg == [lower |-> "", caps |-> FALSE, padded |-> FALSE]

Hint(kind, name) == Some([kind |-> kind, pkg |-> name])

Returned(hint, template) == [raised |-> "none", hint |-> hint, template |-> template]

Raised(error, template) == [raised |-> error, hint |-> None, template |-> template]

\* PkgUpdater.update_package_template(template).
update_package_template(finder, template) ==
    LET hint == IF Len(template.params) # 1 THEN Hint("parameters", NoPkg) ELSE None
    IN IF GetParam(template) = None
       THEN Raised("TemplateParametersError", template)
       ELSE
        LET param == template.params[Get(GetParam(template))].value
            pkgname == Strip(param)
            newtemplate ==
                CASE find_pkg(finder, pkgname, TRUE) # None -> Some("Pkg")
                  [] find_aur(finder, pkgname) -> Some("AUR")
                  [] find_grp(finder, pkgname, TRUE) # None -> Some("Grp")
                  [] OTHER -> None
            pkg_loose == find_pkg(finder, pkgname, FALSE)
            grp_loose == find_grp(finder, pkgname, FALSE)
            replacedby == find_replaces(finder, pkgname, FALSE)
        IN CASE newtemplate # None ->
                  Returned(hint,
                      IF LowerName(template.name) # LowerName(Get(newtemplate))
                      THEN [template EXCEPT !.name = Get(newtemplate)]
                      ELSE template)
             [] newtemplate = None /\ pkg_loose # None ->
                  Returned(None,
                      AddParam([template EXCEPT !.name = "Pkg"], Get(pkg_loose).name))
             [] newtemplate = None /\ pkg_loose = None /\ grp_loose # None ->
                  Returned(None,
                      AddParam([template EXCEPT !.name = "Grp"], Get(grp_loose)))
             [] OTHER ->
                  IF replacedby # None
                  THEN Returned(Hint("replaced", Get(replacedby).name), template)
                  ELSE IF find_aur3_archive(finder, pkgname)
                  THEN Returned(Hint("aur-mirror", Lower(pkgname)), template)
                  ELSE Returned(Hint("not found", NoPkg), template)

\* ---- the specification of update_package_template ----

TemplateInit ==
    /\ autocommit = [i \in Insts |-> TRUE]
    /\ CacheStart
    /\ IwStart
    /\ CheckIdle
    /\ \E finder \in Finders, template \in Templates :
        arg = [fn |-> "update_package_template", finder |-> finder, template |-> template]
    /\ ret = None

UpdatePackageTemplateCall ==
    /\ arg.fn = "update_package_template"
    /\ ret = None
    /\ ret' = Some(update_package_template(arg.finder, arg.template))
    /\ UNCHANGED <<iwVars, cacheVars, chkIn, chkOut, mainArgs, mainDone, mainErr, arg>>

NextTemplate == UpdatePackageTemplateCall

SpecTemplate == TemplateInit /\ [][NextTemplate]_vars

\* The package name of the call was found: as a package, an AUR package or
\* a group, exactly or by a case-insensitive match.
PkgFound(finder, template) ==
    LET pkgname == Strip(template.params[Get(GetParam(template))].value)
    IN \/ find_pkg(finder, pkgname, FALSE) # None
       \/ find_aur(finder, pkgname)
       \/ find_grp(finder, pkgname, FALSE) # None

UpdatedSuccessfully(finder, template) ==
    /\ Len(template.params) = 1
    /\ GetParam(template) # None
    /\ PkgFound(finder, template)

\* C31: update_package_template returns None only when the template has
\* exactly one parameter and its package name was found, and in every other
\* case it returns a hint.  Violated: a template with two parameters whose
\* package name matches only in lowercase returns None, and a template
\* without the parameter 1 raises TemplateParametersError and returns nothing.
C31_NoneOnlyWhenUpdated ==
    (arg.fn = "update_package_template" /\ ret # None) =>
        LET r == Get(ret)
        IN /\ r.raised = "none"
           /\ r.hint = None <=> UpdatedSuccessfully(arg.finder, arg.template)

\* What does hold: with exactly one parameter, which is the parameter 1, the
\* function returns None exactly when the package name was found.
C31_NoneWhenFoundWithOneParameter ==
    (/\ arg.fn = "update_package_template"
     /\ ret # None
     /\ Len(arg.template.params) = 1
     /\ GetParam(arg.template) # None) =>
        LET r == Get(ret)
        IN /\ r.raised = "none"
           /\ r.hint = None <=> PkgFound(arg.finder, arg.template)

\* The two parts of the violation, each on its own.
C31_LooseMatchKeepsParameterHint ==
    (arg.fn = "update_package_template" /\ ret # None /\ Get(ret).raised = "none"
        /\ Len(arg.template.params) # 1) => Get(ret).hint # None

C31_AlwaysReturns ==
    (arg.fn = "update_package_template" /\ ret # None) => Get(ret).raised = "none"

\* ---- update_page ----

\* Most nodes a page of the inputs has.
MaxNodes == 4

\* The nodes of a parsed page: text (all white space or not), a package
\* template, a Broken package link flag with its hint.
TextNode(space) == [kind |-> "text", space |-> space]

TemplateNode(template) == [kind |-> "template", template |-> template]

FlagNode(hint) == [kind |-> "flag", hint |-> hint]

IsFlag(n) == n.kind = "flag"

IsSpace(n) == n.kind = "text" /\ n.space

\* The package templates of the pages: {{Pkg|a}}, {{Pkg|A}}, {{Pkg|a|a}}
\* and {{Pkg}}.
PageTemplates ==
    {tpl \in Templates :
        /\ tpl.name = "Pkg"
        /\ Len(tpl.params) <= 2
        /\ \A i \in DOMAIN tpl.params : tpl.params[i].name = IF i = 1 THEN "1" ELSE "2"
        /\ \A i \in DOMAIN tpl.params : ~tpl.params[i].value.padded
        /\ Len(tpl.params) = 2 => ~tpl.params[1].value.caps}

PageNodes ==
    {TextNode(space) : space \in BOOLEAN}
        \cup {TemplateNode(tpl) : tpl \in PageTemplates}
        \cup {FlagNode(Get(Hint(kind, NoPkg))) : kind \in {"not found", "parameters"}}

\* mwparserfromhell.parse never leaves two text nodes side by side.
Pages ==
    {page \in UNION {[1..n -> PageNodes] : n \in 0..MaxNodes} :
        \A i \in DOMAIN page :
            i > 1 => ~(page[i].kind = "text" /\ page[i - 1].kind = "text")}

PageFinders == {finder \in Finders : finder.grps = {} /\ \A p \in finder.pkgs : p.replaces = {}}

\* The mutant of get_adjacent_node: white space is not skipped.
GetAdjacentNodeNext(nodes, i, ignore_whitespace) ==
    IF i + 1 <= Len(nodes) THEN Some(i + 1) ELSE None

\* get_adjacent_node(wikicode, node, ignore_whitespace): the place of the
\* node following the one at i, past the white space when that is ignored,
\* or None when the nodes run out.
get_adjacent_node(nodes, i, ignore_whitespace) ==
    LET rest == {j \in (i + 1)..Len(nodes) : ~(ignore_whitespace /\ IsSpace(nodes[j]))}
    IN IF rest = {} THEN None ELSE Some(CHOOSE j \in rest : \A k \in rest : j <= k)

\* wikicode.replace, insert_after and remove on a list.
ReplaceAt(s, j, x) == [s EXCEPT ![j] = x]

InsertAfter(s, i, x) == SubSeq(s, 1, i) \o <<x>> \o SubSeq(s, i + 1, Len(s))

RemoveAt(s, j) == SubSeq(s, 1, j - 1) \o SubSeq(s, j + 1, Len(s))

\* strip_whitespace on the template: name and parameter 1 are stripped (the
\* space it adds to the text around the template leaves that text's kind).
strip_whitespace(template) ==
    [template EXCEPT !.params[Get(GetParam(template))].value = Strip(@)]

\* The loop of update_page from the node at i on.  st.nodes are the nodes,
\* st.hints what update_package_template returned for the node of the same
\* place (None for a node it was not called on).
RECURSIVE UpdateNodes(_, _, _)
UpdateNodes(finder, st, i) ==
    IF st.raised # "none" \/ i > Len(st.nodes) THEN st
    ELSE IF st.nodes[i].kind # "template" THEN UpdateNodes(finder, st, i + 1)
    ELSE IF GetParam(st.nodes[i].template) = None
    THEN [st EXCEPT !.raised = "TemplateParametersError"]
    ELSE
        LET r == update_package_template(finder, strip_whitespace(st.nodes[i].template))
            nodes == ReplaceAt(st.nodes, i, TemplateNode(r.template))
            hints == ReplaceAt(st.hints, i, Some(r.hint))
            adjacent == get_adjacent_node(nodes, i, TRUE)
            flagged == adjacent # None /\ IsFlag(nodes[Get(adjacent)])
            next ==
                IF r.hint # None
                THEN IF flagged
                     THEN [st EXCEPT !.nodes = ReplaceAt(nodes, Get(adjacent), FlagNode(Get(r.hint))),
                                     !.hints = hints]
                     ELSE [st EXCEPT !.nodes = InsertAfter(nodes, i, FlagNode(Get(r.hint))),
                                     !.hints = InsertAfter(hints, i, None)]
                ELSE IF flagged
                     THEN [st EXCEPT !.nodes = RemoveAt(nodes, Get(adjacent)),
                                     !.hints = RemoveAt(hints, Get(adjacent))]
                     ELSE [st EXCEPT !.nodes = nodes, !.hints = hints]
        IN UpdateNodes(finder, next, i + 1)

\* PkgUpdater.update_page(title, text), from the parsed text on.
update_page(finder, page) ==
    UpdateNodes(finder,
        [raised |-> "none", nodes |-> page, hints |-> [i \in DOMAIN page |-> None]], 1)

PageInit ==
    /\ autocommit = [i \in Insts |-> TRUE]
    /\ CacheStart
    /\ IwStart
    /\ CheckIdle
    /\ \E finder \in PageFinders, page \in Pages :
        arg = [fn |-> "update_page", finder |-> finder, page |-> page]
    /\ ret = None

UpdatePageCall ==
    /\ arg.fn = "update_page"
    /\ ret = None
    /\ ret' = Some(update_page(arg.finder, arg.page))
    /\ UNCHANGED <<iwVars, cacheVars, chkIn, chkOut, mainArgs, mainDone, mainErr, arg>>

NextPage == UpdatePageCall

SpecPage == PageInit /\ [][NextPage]_vars

\* The flags among the nodes that follow the node at i up to the first node
\* that is neither white space nor a flag.
FlagsAfter(nodes, i) ==
    LET stop == {j \in (i + 1)..Len(nodes) : ~IsSpace(nodes[j]) /\ ~IsFlag(nodes[j])}
        end == IF stop = {} THEN Len(nodes) + 1
               ELSE CHOOSE j \in stop : \A k \in stop : j <= k
    IN Cardinality({j \in (i + 1)..(end - 1) : IsFlag(nodes[j])})

\* Every package template of the page has one flag behind it when its hint
\* is not None and no flag when it is.
FlagsMatchHints(r) ==
    \A i \in DOMAIN r.nodes :
        r.nodes[i].kind = "template" =>
            /\ r.hints[i] # None
            /\ FlagsAfter(r.nodes, i) = IF Get(r.hints[i]) # None THEN 1 ELSE 0

\* No package template of the page has more than one flag behind it.
SingleFlags(page) ==
    \A i \in DOMAIN page : page[i].kind = "template" => FlagsAfter(page, i) <= 1

C32_WitnessRemoved ==
    /\ arg.fn = "update_page"
    /\ ret # None
    /\ Get(ret).raised = "none"
    /\ SingleFlags(arg.page)
    /\ Len(Get(ret).nodes) < Len(arg.page)

\* ======================================================================
\* ws.parser_helpers.encodings: urlencode and urldecode
\* ======================================================================

\* Longest string of the inputs.
MaxStr == 3

\* A string is the sequence of its code points.  The alphabet has the
\* percent sign, a reserved character (space), hexadecimal digits that are
\* unreserved ("2", "5", "a"), an unreserved letter that is no digit ("z")
\* and characters outside ASCII of two and of three UTF-8 bytes.
TestedAlphabet == {37, 32, 50, 53, 97, 122, 233, 8364}

Strings == UNION {[1..n -> TestedAlphabet] : n \in 0..MaxStr}

\* url_unreserved = string.ascii_letters + string.digits + "-_.~"
UrlUnreserved == (65..90) \cup (97..122) \cup (48..57) \cup {45, 95, 46, 126}

\* str.encode("utf-8") of one character and of a string.
Utf8Char(c) ==
    IF c < 128 THEN <<c>>
    ELSE IF c < 2048 THEN <<192 + (c \div 64), 128 + (c % 64)>>
    ELSE <<224 + (c \div 4096), 128 + ((c \div 64) % 64), 128 + (c % 64)>>

RECURSIVE Utf8Encode(_)
Utf8Encode(s) ==
    IF s = <<>> THEN <<>> ELSE Utf8Char(Head(s)) \o Utf8Encode(Tail(s))

\* bytes.decode("utf-8") with errors="strict": None for a malformed sequence.
IsContinuation(b) == b >= 128 /\ b < 192

RECURSIVE Utf8Decode(_)
Utf8Decode(bytes) ==
    IF bytes = <<>> THEN Some(<<>>)
    ELSE
        LET b == bytes[1]
            n == IF b < 128 THEN 1
                 ELSE IF b >= 194 /\ b < 224 THEN 2
                 ELSE IF b >= 224 /\ b < 240 THEN 3
                 ELSE 0
            ok == /\ n > 0
                  /\ n <= Len(bytes)
                  /\ \A k \in 2..n : IsContinuation(bytes[k])
            c == IF n = 1 THEN b
                 ELSE IF n = 2 THEN (b - 192) * 64 + (bytes[2] - 128)
                 ELSE (b - 224) * 4096 + (bytes[2] - 128) * 64 + (bytes[3] - 128)
            rest == IF ok THEN Utf8Decode(SubSeq(bytes, n + 1, Len(bytes))) ELSE None
        IN IF ~ok \/ rest = None THEN None ELSE Some(<<c>> \o Get(rest))

\* The hexadecimal digits: "%X" % n writes them in uppercase, the decoder
\* reads both cases.
HexDigit(n) == IF n < 10 THEN 48 + n ELSE 55 + n

IsHex(c) == c \in (48..57) \cup (65..70) \cup (97..102)

HexValue(c) == IF c <= 57 THEN c - 48 ELSE IF c <= 70 THEN c - 55 ELSE c - 87

\* The mutant of urlencode: the percent sign counts as safe.
RECURSIVE QuoteKeepingPercent(_, _)
QuoteKeepingPercent(bytes, safe) ==
    IF bytes = <<>> THEN <<>>
    ELSE (IF bytes[1] \in safe \cup {37} THEN <<bytes[1]>>
          ELSE <<37, HexDigit(bytes[1] \div 16), HexDigit(bytes[1] % 16)>>)
         \o QuoteKeepingPercent(Tail(bytes), safe)

\* urllib.parse.quote on the bytes of the string: a byte that is not safe
\* becomes "%XX".
RECURSIVE Quote(_, _)
Quote(bytes, safe) ==
    IF bytes = <<>> THEN <<>>
    ELSE (IF bytes[1] \in safe THEN <<bytes[1]>>
          ELSE <<37, HexDigit(bytes[1] \div 16), HexDigit(bytes[1] % 16)>>)
         \o Quote(Tail(bytes), safe)

\* The encoder under test.
QuoteBytes(bytes, safe) == Quote(bytes, safe)

\* urlencode(s) == urllib.parse.quote(s, safe=url_unreserved)
urlencode(s) == QuoteBytes(Utf8Encode(s), UrlUnreserved)

\* Percent-decoding of bytes in one pass: "%" and two hexadecimal digits
\* become the byte, any other "%" stays.
RECURSIVE Unquote(_)
Unquote(bytes) ==
    IF bytes = <<>> THEN <<>>
    ELSE IF bytes[1] = 37 /\ Len(bytes) >= 3 /\ IsHex(bytes[2]) /\ IsHex(bytes[3])
    THEN <<HexValue(bytes[2]) * 16 + HexValue(bytes[3])>>
            \o Unquote(SubSeq(bytes, 4, Len(bytes)))
    ELSE <<bytes[1]>> \o Unquote(Tail(bytes))

\* urldecode(s): the string of the percent-decoded bytes, None when they are
\* no UTF-8.
urldecode(s) == Utf8Decode(Unquote(Utf8Encode(s)))

\* The string has "%" followed by two hexadecimal digits.
HasPercentEscape(s) ==
    \E i \in DOMAIN s : s[i] = 37 /\ i + 2 <= Len(s) /\ IsHex(s[i + 1]) /\ IsHex(s[i + 2])

\* ---- the specification of the encodings ----

EncodingInit ==
    /\ autocommit = [i \in Insts |-> TRUE]
    /\ CacheStart
    /\ IwStart
    /\ CheckIdle
    /\ \E s \in Strings : arg = [fn |-> "urldecode", s |-> s]
    /\ ret = None

\* test_urldecode and test_urldecode_noop on the string s.
UrldecodeCall ==
    /\ arg.fn = "urldecode"
    /\ ret = None
    /\ ret' = Some([enc |-> urlencode(arg.s),
                    dec |-> urldecode(urlencode(arg.s)),
                    noop |-> urldecode(arg.s)])
    /\ UNCHANGED <<iwVars, cacheVars, chkIn, chkOut, mainArgs, mainDone, mainErr, arg>>

NextEncoding == UrldecodeCall

SpecEncoding == EncodingInit /\ [][NextEncoding]_vars

\* C33: for every string s over the tested alphabet urldecode(urlencode(s))
\* is s, and urldecode(s) is s for a string without a percent-escape.
C33_UrldecodeInvertsUrlencode ==
    (arg.fn = "urldecode" /\ ret # None) =>
        /\ Get(ret).dec = Some(arg.s)
        /\ ~HasPercentEscape(arg.s) => Get(ret).noop = Some(arg.s)

\* A string with a percent-escape of its own, a reserved character and a
\* character outside ASCII has been encoded and decoded.
C33_Witness ==
    /\ arg.fn = "urldecode"
    /\ ret # None
    /\ HasPercentEscape(arg.s)
    /\ Get(ret).enc # arg.s
    /\ Get(ret).dec = Some(arg.s)
    /\ Get(ret).noop # Some(arg.s)

\* A string with a bare percent sign and a character outside ASCII is left
\* as it is by urldecode.
C33_WitnessNoop ==
    /\ arg.fn = "urldecode"
    /\ ret # None
    /\ ~HasPercentEscape(arg.s)
    /\ \E i \in DOMAIN arg.s : arg.s[i] = 37
    /\ \E i \in DOMAIN arg.s : arg.s[i] > 127
    /\ Get(ret).noop = Some(arg.s)
====
